---- MODULE Spec2Model ----
(***************************************************************************)
(* LatticeLock backend: the pattern registry (SQLite tables patterns and   *)
(* verification_logs), the store-pattern and verify-pattern handlers of    *)
(* backend/main.py and the analyze-image handler's use of the process-wide *)
(* random number generators.                                               *)
(*                                                                         *)
(* Conventions.                                                            *)
(*  - An RGB colour is a sequence of channel values <<r, g, b>>.           *)
(*  - An optional value is <<>> for Python's None and <<x>> for x.         *)
(*  - A JSON text of an integer list is the sequence of its numerals       *)
(*    (the text between the brackets, split at ", ").                      *)
(*  - A distance is kept in hundredths (floor(100 * sqrt(d2))); a          *)
(*    confidence is the fraction num/den.                                  *)
(*  - Every repository call opens its own connection and commits, so a     *)
(*    handler is a sequence of steps, one per database call or await.      *)
(***************************************************************************)
EXTENDS Integers, Sequences, FiniteSets, TLC

VARIABLES
    patterns,            \* table patterns, in insertion order
    verification_logs,   \* table verification_logs, in insertion order
    vc,                  \* the verify_pattern call in progress (locals + position)
    pyRandom,            \* state of Python's random module
    npRandom,            \* state of numpy.random
    cvRng,               \* state of OpenCV's own generator (cv::theRNG)
    ac,                  \* the analyze_image calls in progress, per call slot
    mc                   \* the last /generate-pdf or /store-pattern call

vars == <<patterns, verification_logs, vc, pyRandom, npRandom, cvRng, ac, mc>>

dbVars == <<patterns, verification_logs, vc, mc>>
rngVars == <<pyRandom, npRandom, cvRng, ac>>

None == <<>>
Some(x) == <<x>>
Val(o) == o[1]

\* ------------------------------------------------------------------ bounds
MaxStored == 2
MaxLogs == 1
MaxAnalyze == 2

\* ------------------------------------------------------------- arithmetic
Min(a, b) == IF a < b THEN a ELSE b
Max(a, b) == IF a > b THEN a ELSE b

RECURSIVE IsqrtBetween(_, _, _)
IsqrtBetween(n, lo, hi) ==
    IF lo >= hi THEN lo
    ELSE LET mid == (lo + hi + 1) \div 2
         IN  IF mid * mid <= n THEN IsqrtBetween(n, mid, hi)
                               ELSE IsqrtBetween(n, lo, mid - 1)

\* int(math.sqrt(n)) for 0 <= n < 2^31
Isqrt(n) == IsqrtBetween(n, 0, 46340)

Range(s) == {s[i] : i \in DOMAIN s}

RECURSIVE SumOver(_, _)
SumOver(S, f) ==
    IF S = {} THEN 0
    ELSE LET x == CHOOSE y \in S : TRUE IN f[x] + SumOver(S \ {x}, f)

\* the orders in which a set can be iterated
Perms(S) == {p \in [1..Cardinality(S) -> S] : Range(p) = S}

\* ------------------------------------------------------------------- JSON
\* the integers whose numerals occur in the stored texts
Numerals == 0..9

\* json.dumps of a list of integers
JsonDumps(list) == [i \in DOMAIN list |-> ToString(list[i])]

\* int(text) of one numeral
ParseInt(text) == CHOOSE n \in Numerals : ToString(n) = text

\* eval / json.loads of the text of a list of integers
EvalList(text) == [i \in DOMAIN text |-> ParseInt(text[i])]

\* ------------------------------------------------------- table patterns
\* the keys of INK_COLORS
INK_COLORS == 0..5

\* the validation with grid sizes up to 8 only
ValidMetadataToEight(m) ==
    /\ ~(m.grid_size < 3 \/ m.grid_size > 8)
    /\ Len(m.pattern) = m.grid_size
    /\ \A i \in DOMAIN m.pattern :
          /\ Len(m.pattern[i]) = m.grid_size
          /\ \A j \in DOMAIN m.pattern[i] :
                /\ ~(m.material_colors = None /\ m.pattern[i][j] \notin INK_COLORS)
                /\ ~(m.pattern[i][j] < 0)

\* validate_grid_size, then validate_pattern (pydantic, 422 on failure)
ValidMetadata(m) ==
    /\ ~(m.grid_size < 3 \/ m.grid_size > 32)
    /\ Len(m.pattern) = m.grid_size
    /\ \A i \in DOMAIN m.pattern :
          /\ Len(m.pattern[i]) = m.grid_size
          /\ \A j \in DOMAIN m.pattern[i] :
                /\ ~(m.material_colors = None /\ m.pattern[i][j] \notin INK_COLORS)
                /\ ~(m.pattern[i][j] < 0)

\* flat_pattern.extend(row) for each row; the rows are of one length where
\* this is applied (validated metadata, the colours of an N x N sampling)
Flatten(rows) ==
    IF rows = <<>> THEN <<>>
    ELSE LET n == Len(rows[1])
         IN  [i \in 1..(Len(rows) * n) |-> rows[((i - 1) \div n) + 1][((i - 1) % n) + 1]]

\* json.dumps(material_colors) if material_colors else None: an empty dict is falsy
StoredColors(material_colors) ==
    IF material_colors = None THEN None
    ELSE IF DOMAIN Val(material_colors) = {} THEN None
    ELSE material_colors

\* the row INSERTed by create_pattern: AUTOINCREMENT id, utcnow timestamp
CreatePattern(table, flat_pattern, grid_size, material_colors) ==
    [id             |-> Len(table) + 1,
     pattern        |-> JsonDumps(flat_pattern),
     grid_size      |-> grid_size,
     material_colors |-> StoredColors(material_colors),
     timestamp      |-> Len(table) + 1]

RECURSIVE Reverse(_)
Reverse(s) == IF s = <<>> THEN <<>> ELSE Reverse(Tail(s)) \o <<Head(s)>>

RECURSIVE Filter(_, _, _)
\* the rows of s, in order, whose field named by key equals val
Filter(s, key, val) ==
    IF s = <<>> THEN <<>>
    ELSE IF Head(s)[key] = val THEN <<Head(s)>> \o Filter(Tail(s), key, val)
         ELSE Filter(Tail(s), key, val)

\* the rows oldest first
OrderByTimestampAsc(rows) == rows

\* ORDER BY timestamp DESC: timestamps grow with the insertion order
OrderByTimestampDesc(rows) == Reverse(rows)

Limit == 10

\* the lookup taking the branch of exact_match = False: WHERE pattern LIKE
\* '[first]%', which of the stored texts only that of the list [first] has
FindMatchingPatternsLike(table, pattern) ==
    LET rows == OrderByTimestampDesc(Filter(table, "pattern", JsonDumps(<<pattern[1]>>)))
    IN  SubSeq(rows, 1, Min(Limit, Len(rows)))

\* SELECT * FROM patterns WHERE pattern = ? ORDER BY timestamp DESC LIMIT ?
FindMatchingPatterns(table, pattern) ==
    LET rows == OrderByTimestampDesc(Filter(table, "pattern", JsonDumps(pattern)))
    IN  SubSeq(rows, 1, Min(Limit, Len(rows)))

\* SELECT * FROM patterns WHERE grid_size = ? ORDER BY timestamp DESC
GetPatternsByGridSize(table, grid_size) ==
    OrderByTimestampDesc(Filter(table, "grid_size", grid_size))

\* the row INSERTed by create_verification_log
CreateVerificationLog(pattern_input, found, matched_pattern_id, confidence) ==
    [pattern_input      |-> JsonDumps(pattern_input),
     found              |-> found,
     matched_pattern_id |-> matched_pattern_id,
     confidence         |-> confidence]

\* ---------------------------------------------------- verify_pattern (pure)
\* the validation with the lower colour bound of analyze_image's fallback
\* path (3) in place of 2
ValidationErrorThreeInks(pattern) ==
    LET pattern_length == Len(pattern)
        grid_size == Isqrt(pattern_length)
        unique_colors == Cardinality(Range(pattern))
    IN  IF grid_size * grid_size # pattern_length \/ grid_size < 3 \/ grid_size > 8
        THEN Some("Pattern must form a square grid from 3x3 to 8x8")
        ELSE IF unique_colors < 3
        THEN Some("Pattern must use at least 2 unique colors")
        ELSE IF unique_colors > 5
        THEN Some("Pattern must use at most 5 unique colors")
        ELSE None

\* lines 1765-1788: the detail of the 400 raised on the pattern, or None
ValidationError(pattern) ==
    LET pattern_length == Len(pattern)
        grid_size == Isqrt(pattern_length)
        unique_colors == Cardinality(Range(pattern))
    IN  IF grid_size * grid_size # pattern_length \/ grid_size < 3 \/ grid_size > 8
        THEN Some("Pattern must form a square grid from 3x3 to 8x8")
        ELSE IF unique_colors < 2
        THEN Some("Pattern must use at least 2 unique colors")
        ELSE IF unique_colors > 5
        THEN Some("Pattern must use at most 5 unique colors")
        ELSE None

\* `if request.extracted_colors:` None and the empty list are falsy
HasColors(request) ==
    /\ request.extracted_colors # None
    /\ Len(Val(request.extracted_colors)) > 0

RECURSIVE ScanColors(_, _, _, _, _)
\* the loop of lines 1813-1830 from pattern position idx (1-based) on: the
\* first cell of each colour ID gives the ID its RGB
ScanColors(pattern, colors, grid_size, idx, id_to_rgb) ==
    IF idx > Len(pattern) THEN [error |-> None, id_to_rgb |-> id_to_rgb]
    ELSE LET row == (idx - 1) \div grid_size
             col == (idx - 1) % grid_size
             color_id == pattern[idx]
         IN  IF row >= Len(colors) \/ col >= Len(colors[row + 1])
             THEN [error |-> Some("extracted_colors dimensions don't match pattern grid"),
                   id_to_rgb |-> id_to_rgb]
             ELSE LET rgb == colors[row + 1][col + 1]
                  IN  IF color_id \in DOMAIN id_to_rgb
                      THEN ScanColors(pattern, colors, grid_size, idx + 1, id_to_rgb)
                      ELSE IF Len(rgb) < 3
                      THEN [error |-> Some("IndexError"), id_to_rgb |-> id_to_rgb]
                      ELSE ScanColors(pattern, colors, grid_size, idx + 1,
                               [i \in DOMAIN id_to_rgb \cup {color_id} |->
                                   IF i = color_id THEN <<rgb[1], rgb[2], rgb[3]>>
                                   ELSE id_to_rgb[i]])

\* lines 1797-1830: the row count check, then the scan
ColorScan(pattern, colors) ==
    LET grid_size == Isqrt(Len(pattern))
    IN  IF Len(colors) # grid_size
        THEN [error |-> Some("extracted_colors must have one row per grid row"),
              id_to_rgb |-> <<>>]
        ELSE ScanColors(pattern, colors, grid_size, 1, <<>>)

\* (r1-r2)^2 + (g1-g2)^2 + (b1-b2)^2, the square of the distance of lines 1908-1912
Dist2(a, b) ==
    (a[1] - b[1]) * (a[1] - b[1]) + (a[2] - b[2]) * (a[2] - b[2])
        + (a[3] - b[3]) * (a[3] - b[3])

\* the distance without its square root, in hundredths
DistanceSquared(a, b) == 100 * Dist2(a, b)

\* math.sqrt of it, in hundredths
Distance(a, b) == Isqrt(10000 * Dist2(a, b))

\* lines 1860-1862: material_colors {"0": rgb, ...} as a dict keyed by int
StoredIdToRgb(material_colors) ==
    LET keys == DOMAIN material_colors
        ids == {ParseInt(k) : k \in keys}
    IN  [i \in ids |-> material_colors[CHOOSE k \in keys : ParseInt(k) = i]]

RECURSIVE ClosestAny(_, _, _, _, _, _)
\* the nearest stored ID without the `if stored_id in used: continue`
ClosestAny(scanned_rgb, stored_order, stored_id_to_rgb, used, min_d2, closest) ==
    IF stored_order = <<>> THEN closest
    ELSE LET stored_id == Head(stored_order)
             d2 == Dist2(scanned_rgb, stored_id_to_rgb[stored_id])
         IN  IF min_d2 = None \/ (min_d2 # None /\ d2 < Val(min_d2))
             THEN ClosestAny(scanned_rgb, Tail(stored_order), stored_id_to_rgb, used,
                             Some(d2), Some(stored_id))
             ELSE ClosestAny(scanned_rgb, Tail(stored_order), stored_id_to_rgb, used,
                             min_d2, closest)

RECURSIVE Closest(_, _, _, _, _, _)
\* lines 1900-1916: the unused stored ID nearest to scanned_rgb, the first one
\* in iteration order among equals (`distance < min_distance` is strict)
Closest(scanned_rgb, stored_order, stored_id_to_rgb, used, min_d2, closest) ==
    IF stored_order = <<>> THEN closest
    ELSE LET stored_id == Head(stored_order)
             d2 == Dist2(scanned_rgb, stored_id_to_rgb[stored_id])
         IN  IF stored_id \in used
             THEN Closest(scanned_rgb, Tail(stored_order), stored_id_to_rgb, used,
                          min_d2, closest)
             ELSE IF min_d2 = None \/ (min_d2 # None /\ d2 < Val(min_d2))
             THEN Closest(scanned_rgb, Tail(stored_order), stored_id_to_rgb, used,
                          Some(d2), Some(stored_id))
             ELSE Closest(scanned_rgb, Tail(stored_order), stored_id_to_rgb, used,
                          min_d2, closest)

\* CPython iterates a set of small non-negative ints (below the table size 8)
\* in increasing order, whatever the insertion order
RECURSIVE SetOrder(_)
SetOrder(S) ==
    IF S = {} THEN <<>>
    ELSE LET m == CHOOSE x \in S : \A y \in S : x <= y
         IN  <<m>> \o SetOrder(S \ {m})

RECURSIVE GreedyFrom(_, _, _, _, _, _)
\* lines 1892-1920: each scanned ID, in iteration order, takes the nearest
\* stored ID not yet used
GreedyFrom(scanned_order, stored_order, id_to_rgb, stored_id_to_rgb, id_mapping, used) ==
    IF scanned_order = <<>> THEN id_mapping
    ELSE LET scanned_id == Head(scanned_order)
             closest == Closest(id_to_rgb[scanned_id], stored_order, stored_id_to_rgb,
                                used, None, None)
         IN  IF closest # None
             THEN GreedyFrom(Tail(scanned_order), stored_order, id_to_rgb,
                      stored_id_to_rgb,
                      [i \in DOMAIN id_mapping \cup {scanned_id} |->
                          IF i = scanned_id THEN Val(closest) ELSE id_mapping[i]],
                      used \cup {Val(closest)})
             ELSE GreedyFrom(Tail(scanned_order), stored_order, id_to_rgb,
                      stored_id_to_rgb, id_mapping, used)

\* line 1925: [id_mapping.get(pid, pid) for pid in pattern]
Remap(pattern, id_mapping) ==
    [i \in DOMAIN pattern |->
        IF pattern[i] \in DOMAIN id_mapping THEN id_mapping[pattern[i]] ELSE pattern[i]]

MaxRgbDistance == 442

\* lines 1938-1951: max(0, 1 - avg_distance / 442) as num/den
Confidence(id_mapping, id_to_rgb, stored_id_to_rgb) ==
    LET ids == DOMAIN id_mapping
        total == SumOver(ids, [i \in ids |->
                     Distance(id_to_rgb[i], stored_id_to_rgb[id_mapping[i]])])
        den == 100 * MaxRgbDistance * Cardinality(ids)
    IN  [num |-> Max(0, den - total), den |-> den]

\* confidence = 1.0 of an exact match (line 2017)
One == [num |-> 1, den |-> 1]

\* lines 1850-1890: None when the candidate is skipped before the greedy loop
\* (no material_colors, scanned IDs not among the stored IDs), else its palette
CandidatePalette(id_to_rgb, candidate) ==
    IF candidate.material_colors = None THEN None
    ELSE LET stored_id_to_rgb == StoredIdToRgb(Val(candidate.material_colors))
             scanned_ids == DOMAIN id_to_rgb
             stored_ids == DOMAIN stored_id_to_rgb
         IN  IF ~(scanned_ids \subseteq stored_ids) THEN None
             ELSE IF Cardinality(scanned_ids) > Cardinality(stored_ids) THEN None
             ELSE Some(stored_id_to_rgb)

\* the id_mapping of lines 1892-1920 for a candidate that reaches the loop
IdMapping(id_to_rgb, stored_id_to_rgb) ==
    GreedyFrom(SetOrder(DOMAIN id_to_rgb), SetOrder(DOMAIN stored_id_to_rgb),
               id_to_rgb, stored_id_to_rgb, <<>>, {})

\* lines 1844-1962 for one candidate: None, or the match with its confidence
MatchCandidate(pattern, id_to_rgb, candidate) ==
    LET palette == CandidatePalette(id_to_rgb, candidate)
    IN  IF palette = None THEN None
        ELSE LET id_mapping == IdMapping(id_to_rgb, Val(palette))
                 remapped == Remap(pattern, id_mapping)
             IN  IF remapped = EvalList(candidate.pattern)
                 THEN Some([id |-> candidate.id,
                            confidence |-> Confidence(id_mapping, id_to_rgb, Val(palette))])
                 ELSE None

RECURSIVE BestMatchFrom(_, _, _, _, _)
\* the loop over the candidates: `if confidence > best_score` with best_score = 0
\* at first; every match of one call has the same den, so num decides
BestMatchFrom(pattern, id_to_rgb, candidates, best_match, best_score) ==
    IF candidates = <<>> THEN best_match
    ELSE LET m == MatchCandidate(pattern, id_to_rgb, Head(candidates))
         IN  IF m # None /\ Val(m).confidence.num > best_score
             THEN BestMatchFrom(pattern, id_to_rgb, Tail(candidates), m,
                                Val(m).confidence.num)
             ELSE BestMatchFrom(pattern, id_to_rgb, Tail(candidates), best_match,
                                best_score)

BestMatch(pattern, id_to_rgb, candidates) ==
    BestMatchFrom(pattern, id_to_rgb, candidates, None, 0)

\* the id_mapping built for each candidate that reaches the greedy loop
RECURSIVE IdMappings(_, _)
IdMappings(id_to_rgb, candidates) ==
    IF candidates = <<>> THEN <<>>
    ELSE LET palette == CandidatePalette(id_to_rgb, Head(candidates))
         IN  (IF palette = None THEN <<>>
              ELSE <<IdMapping(id_to_rgb, Val(palette))>>)
             \o IdMappings(id_to_rgb, Tail(candidates))

\* ----------------------------------------------------------------- inputs
\* a pattern of length len over inks 0..k-1
Cyc(len, k) == [i \in 1..len |-> (i - 1) % k]

\* the 3x3 pattern of the exact-duplicate scenario, and its two inks swapped
P1 == <<0, 1, 0, 1, 0, 1, 0, 1, 1>>
P2 == <<1, 0, 1, 0, 1, 0, 1, 0, 0>>

Rows(flat, n) == [r \in 1..n |-> [c \in 1..n |-> flat[(r - 1) * n + c]]]

\* material_colors as submitted: ink numeral -> colour
PalX == ("0" :> <<200, 0, 0>> @@ "1" :> <<100, 0, 0>>)
PalX15 == ("0" :> <<215, 15, 15>> @@ "1" :> <<115, 15, 15>>)

StoreInputs ==
    { [pattern |-> Rows(P1, 3), grid_size |-> 3, material_colors |-> Some(PalX)],
      [pattern |-> Rows(P1, 3), grid_size |-> 3, material_colors |-> Some(PalX15)],
      [pattern |-> Rows(P1, 3), grid_size |-> 3, material_colors |-> None] }

\* per-cell colours of a scan of P1: every ink 15 brighter than PalX in each
\* channel; and a scan whose two inks are both nearest to PalX's ink 0
ScanShift == (0 :> <<215, 15, 15>> @@ 1 :> <<115, 15, 15>>)
ScanNear == (0 :> <<215, 15, 15>> @@ 1 :> <<170, 15, 15>>)
\* colours with a green channel above 255, 450 from PalX's in RGB distance
ScanFar == (0 :> <<200, 450, 0>> @@ 1 :> <<100, 450, 0>>)
\* the colours of ScanShift on the other ink each
ScanSwap == (0 :> <<115, 15, 15>> @@ 1 :> <<215, 15, 15>>)

CellColors(scan) == [r \in 1..3 |-> [c \in 1..3 |-> scan[P1[(r - 1) * 3 + c]]]]

\* the scan of P1 whose last cell, of ink 1, is 30 brighter than the other
\* cells of that ink
UnevenColors == [CellColors(ScanShift) EXCEPT ![3][3] = <<145, 45, 45>>]

\* the scan of P1 with a fourth row, a fourth column, a row of two cells, and
\* a cell of two channels: the first cell of its ink, and a later one
MalformedColors ==
    { Append(CellColors(ScanShift), CellColors(ScanShift)[1]),
      [r \in 1..3 |-> Append(CellColors(ScanShift)[r], <<0, 0, 0>>)],
      [CellColors(ScanShift) EXCEPT ![2] = SubSeq(@, 1, 2)],
      [CellColors(ScanShift) EXCEPT ![1][1] = <<215, 15>>],
      [CellColors(ScanShift) EXCEPT ![3][3] = <<115, 15>>] }

PatternLengths == {4, 9, 10, 16, 64, 81}
InkCounts == {1, 2, 5, 6}

VerifyInputs ==
    { [pattern |-> Cyc(len, k), extracted_colors |-> None] :
          len \in PatternLengths, k \in InkCounts }
    \cup { [pattern |-> P1, extracted_colors |-> None],
           [pattern |-> P1, extracted_colors |-> Some(<<>>)],
           [pattern |-> P1, extracted_colors |-> Some(CellColors(ScanShift))],
           [pattern |-> P2, extracted_colors |-> Some(CellColors(ScanShift))],
           [pattern |-> P1, extracted_colors |-> Some(CellColors(ScanNear))],
           [pattern |-> P2, extracted_colors |-> Some(CellColors(ScanNear))],
           [pattern |-> P1, extracted_colors |-> Some(CellColors(ScanSwap))],
           [pattern |-> P2, extracted_colors |-> Some(CellColors(ScanFar))],
           [pattern |-> P1, extracted_colors |-> Some(UnevenColors)],
           [pattern |-> P1,
            extracted_colors |-> Some(SubSeq(CellColors(ScanShift), 1, 2))] }
    \cup { [pattern |-> P1, extracted_colors |-> Some(colors)] :
               colors \in MalformedColors }

\* ------------------------------------------- generate_pdf, store_pattern
\* metadata of both endpoints: the registered ones, a 32x32 grid and a 33x33
\* one, a 2x2 one, a grid lacking a row and one with a cell too many, ink 5
\* and ink 6 without colours, ink 6 with colours and with an empty colour
\* dict, and a negative ink with colours
Zeros(n) == [r \in 1..n |-> [c \in 1..n |-> 0]]

MetadataInputs ==
    StoreInputs \cup
    { [pattern |-> Zeros(32), grid_size |-> 32, material_colors |-> None],
      [pattern |-> Zeros(33), grid_size |-> 33, material_colors |-> None],
      [pattern |-> Zeros(2), grid_size |-> 2, material_colors |-> None],
      [pattern |-> SubSeq(Rows(P1, 3), 1, 2), grid_size |-> 3,
       material_colors |-> Some(PalX)],
      [pattern |-> [Rows(P1, 3) EXCEPT ![2] = Append(@, 0)], grid_size |-> 3,
       material_colors |-> Some(PalX)],
      [pattern |-> [Rows(P1, 3) EXCEPT ![3][3] = 5], grid_size |-> 3,
       material_colors |-> None],
      [pattern |-> [Rows(P1, 3) EXCEPT ![3][3] = 6], grid_size |-> 3,
       material_colors |-> None],
      [pattern |-> [Rows(P1, 3) EXCEPT ![3][3] = 6], grid_size |-> 3,
       material_colors |-> Some(PalX)],
      [pattern |-> [Rows(P1, 3) EXCEPT ![3][3] = 6], grid_size |-> 3,
       material_colors |-> Some(<<>>)],
      [pattern |-> [Rows(P1, 3) EXCEPT ![3][3] = 0 - 1], grid_size |-> 3,
       material_colors |-> Some(PalX)] }

\* no call yet.  reg0 is the length of table patterns when the call arrived
NoCall == [endpoint |-> "none", metadata |-> None, status |-> 0,
           success |-> FALSE, reg0 |-> 0, pdf |-> None]

\* a call of endpoint that passed the validation of its body
Accepted(endpoint, metadata, pdf) ==
    [endpoint |-> endpoint, metadata |-> Some(metadata), status |-> 200,
     success |-> TRUE, reg0 |-> Len(patterns), pdf |-> pdf]

\* lines 446-480 of create_professional_pdf: the fill of each cell of the
\* grid, the custom colour of its ink if there is one, else INK_COLORS.get(
\* ink_value, INK_COLORS[0])
CreateProfessionalPdf(metadata) ==
    [row \in 1..metadata.grid_size |->
        [col \in 1..metadata.grid_size |->
            LET ink_value == metadata.pattern[row][col]
                material_colors == metadata.material_colors
            IN  IF /\ material_colors # None
                   /\ ToString(ink_value) \in DOMAIN Val(material_colors)
                THEN <<"rgb", Val(material_colors)[ToString(ink_value)]>>
                ELSE <<"ink", IF ink_value \in INK_COLORS THEN ink_value ELSE 0>>]]

\* lines 692-751: the body is validated, the PDF generated and returned (the
\* validation is compared with TRUE to be evaluated as one expression)
GeneratePdf(metadata) ==
    /\ ValidMetadata(metadata) = TRUE
    /\ mc' = Accepted("generate-pdf", metadata, Some(CreateProfessionalPdf(metadata)))
    /\ UNCHANGED <<patterns, verification_logs, vc, rngVars>>

\* lines 753-794: validate, flatten, create_pattern
\* the registry grows to MaxStored records, and by one record from a full
\* page of Limit records
StoreRoom(table) == Len(table) < MaxStored \/ Len(table) = Limit

StorePattern(metadata) ==
    /\ StoreRoom(patterns)
    /\ ValidMetadata(metadata) = TRUE
    /\ patterns' = Append(patterns,
           CreatePattern(patterns, Flatten(metadata.pattern), metadata.grid_size,
                         metadata.material_colors))
    /\ mc' = Accepted("store-pattern", metadata, None)
    /\ UNCHANGED <<verification_logs, vc, rngVars>>

\* lines 96-118: a body that fails the validation of PDFMetadata never
\* reaches the handler of its endpoint; the answer is a 422
validation_exception_handler(endpoint, metadata) ==
    /\ ~ValidMetadata(metadata)
    /\ mc' = [endpoint |-> endpoint, metadata |-> Some(metadata), status |-> 422,
              success |-> FALSE, reg0 |-> Len(patterns), pdf |-> None]
    /\ UNCHANGED <<patterns, verification_logs, vc, rngVars>>

\* -------------------------------------------------------- verify_pattern
\* no call in progress.  reads counts the repository reads of the call;
\* reg0 and log0 are the lengths of the two tables when the call began
Idle ==
    [pc |-> "idle", request |-> None, id_to_rgb |-> <<>>, reads |-> 0,
     candidates |-> <<>>, id_mappings |-> <<>>, best_match |-> None,
     found |-> FALSE, matches |-> <<>>, matched_pattern_id |-> None,
     confidence |-> None, reg0 |-> 0, log0 |-> 0, log_failed |-> FALSE,
     error |-> None, response |-> None]

Rejected(call, status, detail) ==
    [call EXCEPT !.pc = "done", !.error = Some([status |-> status, detail |-> detail])]

\* the call with the candidates fetched ahead of the validation
VerifyBeginFetchFirst(request) ==
    /\ vc.pc = "idle"
    /\ Len(verification_logs) < MaxLogs
    /\ LET call == [Idle EXCEPT !.request = Some(request),
                                !.reg0 = Len(patterns),
                                !.log0 = Len(verification_logs),
                                !.reads = 1,
                                !.candidates =
                                    GetPatternsByGridSize(patterns,
                                        Isqrt(Len(request.pattern)))]
           invalid == ValidationError(request.pattern)
       IN  IF invalid # None
           THEN vc' = Rejected(call, 400, Val(invalid))
           ELSE IF HasColors(request)
           THEN LET scan == ColorScan(request.pattern, Val(request.extracted_colors))
                IN  IF scan.error = None
                    THEN vc' = [call EXCEPT !.pc = "fetch",
                                            !.reads = 0,
                                            !.candidates = <<>>,
                                            !.id_to_rgb = scan.id_to_rgb]
                    ELSE IF scan.error = Some("IndexError")
                    THEN vc' = Rejected(call, 500, "IndexError")
                    ELSE vc' = Rejected(call, 400, Val(scan.error))
           ELSE vc' = [call EXCEPT !.pc = "lookup", !.reads = 0, !.candidates = <<>>]
    /\ UNCHANGED <<patterns, verification_logs, rngVars, mc>>

\* lines 1762-1835: validation of the pattern and of extracted_colors, and
\* the RGB of each scanned ID; no repository call yet
VerifyBegin(request) ==
    /\ vc.pc = "idle"
    /\ Len(verification_logs) < MaxLogs
    /\ LET call == [Idle EXCEPT !.request = Some(request),
                                !.reg0 = Len(patterns),
                                !.log0 = Len(verification_logs)]
           invalid == ValidationError(request.pattern)
       IN  IF invalid # None
           THEN vc' = Rejected(call, 400, Val(invalid))
           ELSE IF HasColors(request)
           THEN LET scan == ColorScan(request.pattern, Val(request.extracted_colors))
                IN  IF scan.error = None
                    THEN vc' = [call EXCEPT !.pc = "fetch",
                                            !.id_to_rgb = scan.id_to_rgb]
                    ELSE IF scan.error = Some("IndexError")
                    THEN vc' = Rejected(call, 500, "IndexError")
                    ELSE vc' = Rejected(call, 400, Val(scan.error))
           ELSE vc' = [call EXCEPT !.pc = "lookup"]
    /\ UNCHANGED <<patterns, verification_logs, rngVars, mc>>

\* the matching with colours answering not found without the exact lookup
VerifyMatchOnly ==
    /\ vc.pc = "fetch"
    /\ LET pattern == Val(vc.request).pattern
           candidates == GetPatternsByGridSize(patterns, Isqrt(Len(pattern)))
           best_match == BestMatch(pattern, vc.id_to_rgb, candidates)
           call == [vc EXCEPT !.reads = @ + 1,
                              !.candidates = candidates,
                              !.id_mappings = IdMappings(vc.id_to_rgb, candidates),
                              !.best_match = best_match]
       IN  IF best_match # None
           THEN vc' = [call EXCEPT
                          !.pc = "log",
                          !.found = TRUE,
                          !.matches = <<[id |-> Val(best_match).id,
                                         confidence |-> Val(best_match).confidence]>>,
                          !.matched_pattern_id = Some(Val(best_match).id),
                          !.confidence = Some(Val(best_match).confidence)]
           ELSE vc' = [call EXCEPT !.pc = "log"]
    /\ UNCHANGED <<patterns, verification_logs, rngVars, mc>>

\* lines 1837-1981: get_patterns_by_grid_size, then the loop over the
\* candidates; a best match goes to its log write, none falls to the lookup
VerifyMatch ==
    /\ vc.pc = "fetch"
    /\ LET pattern == Val(vc.request).pattern
           candidates == GetPatternsByGridSize(patterns, Isqrt(Len(pattern)))
           best_match == BestMatch(pattern, vc.id_to_rgb, candidates)
           call == [vc EXCEPT !.reads = @ + 1,
                              !.candidates = candidates,
                              !.id_mappings = IdMappings(vc.id_to_rgb, candidates),
                              !.best_match = best_match]
       IN  IF best_match # None
           THEN vc' = [call EXCEPT
                          !.pc = "log",
                          !.found = TRUE,
                          !.matches = <<[id |-> Val(best_match).id,
                                         confidence |-> Val(best_match).confidence]>>,
                          !.matched_pattern_id = Some(Val(best_match).id),
                          !.confidence = Some(Val(best_match).confidence)]
           ELSE vc' = [call EXCEPT !.pc = "lookup"]
    /\ UNCHANGED <<patterns, verification_logs, rngVars, mc>>

\* the lookup made with the pattern remapped by the mapping of the first
\* candidate that has one
VerifyLookupRemapped ==
    /\ vc.pc = "lookup"
    /\ LET pattern == IF vc.id_mappings = <<>> THEN Val(vc.request).pattern
                      ELSE Remap(Val(vc.request).pattern, vc.id_mappings[1])
           matching_patterns == FindMatchingPatterns(patterns, pattern)
           matches == [i \in DOMAIN matching_patterns |->
                          [id |-> matching_patterns[i].id, confidence |-> One]]
       IN  vc' = [vc EXCEPT
                     !.pc = "log",
                     !.reads = @ + 1,
                     !.found = Len(matching_patterns) > 0,
                     !.matches = matches,
                     !.matched_pattern_id =
                         IF matching_patterns = <<>> THEN None
                         ELSE Some(matching_patterns[Len(matching_patterns)].id),
                     !.confidence =
                         IF matches = <<>> THEN None ELSE Some(matches[1].confidence)]
    /\ UNCHANGED <<patterns, verification_logs, rngVars, mc>>

\* the lookup answering an empty result with a 404
VerifyLookupNotFound ==
    /\ vc.pc = "lookup"
    /\ LET matching_patterns == FindMatchingPatterns(patterns, Val(vc.request).pattern)
           matches == [i \in DOMAIN matching_patterns |->
                          [id |-> matching_patterns[i].id, confidence |-> One]]
       IN  IF matching_patterns = <<>>
           THEN vc' = Rejected([vc EXCEPT !.reads = @ + 1], 404, "Pattern not found")
           ELSE vc' = [vc EXCEPT
                          !.pc = "log",
                          !.reads = @ + 1,
                          !.found = TRUE,
                          !.matches = matches,
                          !.matched_pattern_id =
                              Some(matching_patterns[Len(matching_patterns)].id),
                          !.confidence = Some(matches[1].confidence)]
    /\ UNCHANGED <<patterns, verification_logs, rngVars, mc>>

\* lines 2002-2025: find_matching_patterns on the unmapped pattern; the loop
\* leaves matched_pattern_id at the last row
VerifyLookup ==
    /\ vc.pc = "lookup"
    /\ LET matching_patterns == FindMatchingPatterns(patterns, Val(vc.request).pattern)
           matches == [i \in DOMAIN matching_patterns |->
                          [id |-> matching_patterns[i].id, confidence |-> One]]
       IN  vc' = [vc EXCEPT
                     !.pc = "log",
                     !.reads = @ + 1,
                     !.found = Len(matching_patterns) > 0,
                     !.matches = matches,
                     !.matched_pattern_id =
                         IF matching_patterns = <<>> THEN None
                         ELSE Some(matching_patterns[Len(matching_patterns)].id),
                     !.confidence =
                         IF matches = <<>> THEN None ELSE Some(matches[1].confidence)]
    /\ UNCHANGED <<patterns, verification_logs, rngVars, mc>>

\* the response returned with a log row written for a match only
VerifyLogMatched ==
    /\ vc.pc = "log"
    /\ verification_logs' =
           IF vc.found
           THEN Append(verification_logs,
                    CreateVerificationLog(Val(vc.request).pattern, vc.found,
                                          vc.matched_pattern_id, vc.confidence))
           ELSE verification_logs
    /\ vc' = [vc EXCEPT !.pc = "done",
                        !.response = Some([found |-> vc.found, matches |-> vc.matches,
                                           partial_matches |-> <<>>])]
    /\ UNCHANGED <<patterns, rngVars, mc>>

\* lines 1983-1998 and 2027-2044: the log row is written, the response returned
VerifyLog ==
    /\ vc.pc = "log"
    /\ verification_logs' = Append(verification_logs,
           CreateVerificationLog(Val(vc.request).pattern, vc.found,
                                 vc.matched_pattern_id, vc.confidence))
    /\ vc' = [vc EXCEPT !.pc = "done",
                        !.response = Some([found |-> vc.found, matches |-> vc.matches,
                                           partial_matches |-> <<>>])]
    /\ UNCHANGED <<patterns, rngVars, mc>>

\* create_verification_log raises (database locked, disk full): after a Mode
\* B match nothing catches it, after the lookup lines 2048-2054 turn it into
\* a 500; either way the call ends in an error
VerifyLogFails ==
    /\ vc.pc = "log"
    /\ vc' = [Rejected(vc, 500, IF vc.best_match # None THEN "Internal Server Error"
                                 ELSE "Verification failed")
                 EXCEPT !.log_failed = TRUE]
    /\ UNCHANGED <<patterns, verification_logs, rngVars, mc>>

\* the response or the error has gone to the client
VerifyReturn ==
    /\ vc.pc = "done"
    /\ vc' = Idle
    /\ UNCHANGED <<patterns, verification_logs, rngVars, mc>>

\* ---------------------------------------------------------- analyze_image
\* cv2.kmeans draws its k-means++ centres from OpenCV's own generator, whose
\* state a call leaves advanced; the states are counted modulo CvPeriod
CvPeriod == 6
NextRng(state) == (state + 1) % CvPeriod

\* random.seed(42), np.random.seed(42)
RandomSeed == 42

KClusters == 3

RECURSIVE DistinctInOrder(_, _)
\* the distinct elements of points, in the order of their first occurrence
DistinctInOrder(points, seen) ==
    IF points = <<>> THEN seen
    ELSE IF Head(points) \in Range(seen) THEN DistinctInOrder(Tail(points), seen)
         ELSE DistinctInOrder(Tail(points), Append(seen, Head(points)))

IndexOf(seq, x) == CHOOSE i \in DOMAIN seq : seq[i] = x

\* cv2.kmeans(points, 3, ..., KMEANS_PP_CENTERS) on at most 3 well separated
\* colours: every colour becomes a cluster, numbered in the order in which the
\* centres were drawn, which the generator state decides; a centre left over
\* repeats the last colour
KMeans(points, state) ==
    LET colours == DistinctInOrder(points, <<>>)
        n == Len(colours)
        drawn == [j \in 1..n |-> colours[((j - 1 + state) % n) + 1]]
    IN  [labels  |-> [i \in DOMAIN points |-> IndexOf(drawn, points[i]) - 1],
         centers |-> [j \in 1..KClusters |-> drawn[Min(j, n)]]]

Abs(x) == IF x < 0 THEN 0 - x ELSE x

RECURSIVE MergeDuplicates(_, _, _, _)
\* lines 1241-1263: duplicate_map (old cluster -> merged cluster, 0-based) and
\* merged_centers; a centre within 5 of a seen one in every channel is merged
MergeDuplicates(centers, i, duplicate_map, merged_centers) ==
    IF i > Len(centers) THEN [duplicate_map |-> duplicate_map,
                              merged_centers |-> merged_centers]
    ELSE LET rgb == centers[i]
             dups == {j \in DOMAIN merged_centers :
                         /\ Abs(rgb[1] - merged_centers[j][1]) < 5
                         /\ Abs(rgb[2] - merged_centers[j][2]) < 5
                         /\ Abs(rgb[3] - merged_centers[j][3]) < 5}
         IN  IF dups # {}
             THEN MergeDuplicates(centers, i + 1,
                      Append(duplicate_map, (CHOOSE j \in dups : \A h \in dups : j <= h) - 1),
                      merged_centers)
             ELSE MergeDuplicates(centers, i + 1,
                      Append(duplicate_map, Len(merged_centers)),
                      Append(merged_centers, rgb))

\* lines 1276-1289: the cluster is background or grid line
FilteredCluster(rgb) ==
    LET min_ch == Min(rgb[1], Min(rgb[2], rgb[3]))
        max_ch == Max(rgb[1], Max(rgb[2], rgb[3]))
        rgb_sum == rgb[1] + rgb[2] + rgb[3]
    IN  min_ch > 200 \/ max_ch < 60 \/ rgb_sum < 120

RECURSIVE ValidColors(_, _)
\* the 0-based indices of the clusters kept, in increasing order
ValidColors(centers, i) ==
    IF i > Len(centers) THEN <<>>
    ELSE (IF FilteredCluster(centers[i]) THEN <<>> ELSE <<i - 1>>)
         \o ValidColors(centers, i + 1)

\* lines 1297-1314: old_to_new_id.get(old_id, 0) when a cluster was filtered
RemapLabels(best_labels, valid_colors, colors_filtered) ==
    [i \in DOMAIN best_labels |->
        IF colors_filtered
        THEN IF best_labels[i] \in Range(valid_colors)
             THEN IndexOf(valid_colors, best_labels[i]) - 1
             ELSE 0
        ELSE best_labels[i]]

\* lines 1220-1314: the clusters of the sampled colours (best_labels and
\* cluster_centers_rgb after the merge, the clusters kept) and the ink IDs
\* of the cells
ClassifyCells(all_colors, state) ==
    LET km == KMeans(all_colors, state)
        merged == MergeDuplicates(km.centers, 1, <<>>, <<>>)
        best_labels == [i \in DOMAIN km.labels |-> merged.duplicate_map[km.labels[i] + 1]]
        valid_colors == ValidColors(merged.merged_centers, 1)
        colors_filtered == Len(valid_colors) < Len(merged.merged_centers)
    IN  [labels |-> best_labels, centers |-> merged.merged_centers,
         valid_colors |-> valid_colors,
         pattern |-> RemapLabels(best_labels, valid_colors, colors_filtered)]

\* ----------------------------------------------- analyze_image: grid size
\* An image is given by what OpenCV derives from it: whether it decodes,
\* whether a quadrilateral contour is found and its bounding box w x h, the
\* number of components of valid area, the y of the component centroids, the
\* midpoints of the horizontal and vertical Hough segments, and the inks of
\* the printed cells (cells, a square grid filling the box).

\* the clamp with 9 let through
ClampToNine(n) == Max(3, Min(9, n))

\* max(3, min(8, n))
Clamp(n) == Max(3, Min(8, n))

\* round(a / b) of Python 3 (ties to even), for a >= 0 and b > 0
RoundDiv(a, b) ==
    LET q == a \div b
        twice == 2 * (a % b)
    IN  IF twice < b THEN q
        ELSE IF twice > b THEN q + 1
        ELSE IF q % 2 = 0 THEN q ELSE q + 1

\* list.sort(): the element of rank k, equal elements in their given order
Sorted(positions) ==
    LET n == Len(positions)
        Rank(i) == Cardinality({j \in 1..n :
                       \/ positions[j] < positions[i]
                       \/ positions[j] = positions[i] /\ j < i}) + 1
    IN  [k \in 1..n |-> positions[CHOOSE i \in 1..n : Rank(i) = k]]

RECURSIVE ClusterFrom(_, _, _, _, _, _, _, _)
\* the clustering loops of lines 1050-1083 and 1140-1152 from position i on: a
\* position joins the current cluster (its first element, sum and length
\* kept) while it is nearer than num/den to the cluster's first; a cluster
\* gives int(sum(current_cluster) / len(current_cluster))
ClusterFrom(sorted, i, num, den, first, sum, len, clusters) ==
    IF i > Len(sorted) THEN Append(clusters, sum \div len)
    ELSE IF den * Abs(sorted[i] - first) < num
    THEN ClusterFrom(sorted, i + 1, num, den, first, sum + sorted[i], len + 1, clusters)
    ELSE ClusterFrom(sorted, i + 1, num, den, sorted[i], sorted[i], 1,
                     Append(clusters, sum \div len))

Cluster(positions, num, den) ==
    IF positions = <<>> THEN <<>>
    ELSE LET sorted == Sorted(positions)
         IN  ClusterFrom(sorted, 2, num, den, sorted[1], sorted[1], 1, <<>>)

\* int((detected_count ** 0.5) + 0.5), line 1010
EstimatedFromComponents(detected_count) ==
    LET root == Isqrt(detected_count)
    IN  IF detected_count > root * root + root THEN root + 1 ELSE root

\* the rule of line 1015 without its second disjunct
UseHoughFirstBySize(detected_count) ==
    EstimatedFromComponents(detected_count) < 6

\* line 1015
UseHoughFirst(detected_count) ==
    EstimatedFromComponents(detected_count) < 6 \/ detected_count < 50

\* line clusters: the threshold is roi.shape[0] / 8 / 2 for both directions
HoughClusters(positions, h) == Cluster(positions, h, 16)

\* int(round(size / avg_spacing)) of lines 1100 and 1113, before the clamp;
\* None when fewer than two lines leave the default
HoughRawEstimate(clusters, size) ==
    IF Len(clusters) < 2 THEN None
    ELSE LET span == clusters[Len(clusters)] - clusters[1]
         IN  IF span > 0 THEN Some(RoundDiv(size * (Len(clusters) - 1), span))
             ELSE Some(3)

\* lines 1095-1118: the estimate of one direction as it is used
HoughEstimate(clusters, size) ==
    LET raw == HoughRawEstimate(clusters, size)
    IN  IF raw = None THEN 3 ELSE Clamp(Val(raw))

\* line 1121: grid_size = max(estimated_h, estimated_v)
HoughGridSize(image) ==
    Max(HoughEstimate(HoughClusters(image.h_lines, image.h), image.h),
        HoughEstimate(HoughClusters(image.v_lines, image.h), image.w))

\* the larger of the two raw estimates, None when neither direction has one
HoughRawSize(image) ==
    LET raw_h == HoughRawEstimate(HoughClusters(image.h_lines, image.h), image.h)
        raw_v == HoughRawEstimate(HoughClusters(image.v_lines, image.h), image.w)
    IN  IF raw_h = None THEN raw_v
        ELSE IF raw_v = None THEN raw_h
        ELSE Some(Max(Val(raw_h), Val(raw_v)))

\* [int((i + 0.5) * (size / n)) for i in range(n)]
EvenPositions(size, n) == [i \in 1..n |-> ((2 * i - 1) * size) \div (2 * n)]

\* lines 1134-1152: the rows of centroids, 15 px apart or more
CentroidRows(image) == Cluster(image.centroid_ys, 15, 1)

\* lines 1458-1466: the size from the component count in the second selection
ComponentGridSize(detected_count) ==
    LET root == Isqrt(detected_count)
        squares == {size \in 3..8 : size * size >= detected_count}
        estimated_grid ==
            IF root * root = detected_count \/ squares = {} THEN root
            ELSE CHOOSE size \in squares : \A other \in squares : size <= other
    IN  Clamp(estimated_grid)

\* lines 1010-1174 and 1348-1467: the strategy that fixes the grid size, its
\* estimate as first computed (raw), the size used (None: not detected) and
\* the sampling (points: around row and column centres; cells: cell boxes)
GridDetection(image) ==
    IF UseHoughFirst(image.detected_count)
    THEN [strategy |-> "hough", raw |-> HoughRawSize(image),
          grid_size |-> Some(HoughGridSize(image)), sampling |-> "points",
          row_y_positions |-> EvenPositions(image.h, HoughGridSize(image))]
    ELSE LET row_y_positions == CentroidRows(image)
             rows == Len(row_y_positions)
         IN  IF rows \in 7..8
             THEN [strategy |-> "centroids", raw |-> Some(rows),
                   grid_size |-> Some(8), sampling |-> "points",
                   row_y_positions |->
                       IF rows < 8 THEN EvenPositions(image.h, 8)
                       ELSE row_y_positions]
             ELSE IF rows \in 3..6
             THEN [strategy |-> "centroids", raw |-> Some(rows),
                   grid_size |-> Some(rows), sampling |-> "points",
                   row_y_positions |-> row_y_positions]
             ELSE IF rows < 3
             THEN [strategy |-> "centroids", raw |-> Some(rows),
                   grid_size |-> None, sampling |-> "none",
                   row_y_positions |-> row_y_positions]
             ELSE IF 10 * image.detected_count < 7 * rows * rows
             THEN [strategy |-> "hough", raw |-> HoughRawSize(image),
                   grid_size |-> Some(HoughGridSize(image)), sampling |-> "cells",
                   row_y_positions |-> <<>>]
             ELSE [strategy |-> "components",
                   raw |-> Some(Isqrt(image.detected_count)),
                   grid_size |-> Some(ComponentGridSize(image.detected_count)),
                   sampling |-> "cells", row_y_positions |-> <<>>]

\* ------------------------------------------------ analyze_image: sampling
\* unprinted paper, and the colour of a drawn grid line
Paper == <<255, 255, 255>>
GridLineColor == <<0, 0, 0>>

\* the ink printed at pixel (x, y) of the box
ColorAt(image, x, y) ==
    LET printed == Len(image.cells)
    IN  image.cells[Min(printed, (y * printed) \div image.h + 1)]
                   [Min(printed, (x * printed) \div image.w + 1)]

\* pos is nearer than half to one of the lines bounding the printed cells
OnLine(pos, size, printed, half) ==
    /\ half > 0
    /\ \E i \in 0..printed : Abs(pos - (i * size) \div printed) < half

\* roi_color[y][x] (line 950): a grid line where one is drawn, else the ink
PixelAt(image, x, y) ==
    IF \/ OnLine(x, image.w, Len(image.cells), image.line_half)
       \/ OnLine(y, image.h, Len(image.cells), image.line_half)
    THEN GridLineColor
    ELSE ColorAt(image, x, y)

\* image[py][px] of the decoded image, in which the box lies at (x, y) with
\* paper around it
FullPixelAt(image, px, py) ==
    IF px - image.x \in 0..(image.w - 1) /\ py - image.y \in 0..(image.h - 1)
    THEN PixelAt(image, px - image.x, py - image.y)
    ELSE Paper

\* the k-th smallest of a sequence of numbers
KthSmallest(values, k) ==
    CHOOSE v \in Range(values) :
        /\ Cardinality({i \in DOMAIN values : values[i] < v}) < k
        /\ k <= Cardinality({i \in DOMAIN values : values[i] <= v})

\* int(np.median(values)): the middle value, or the mean of the two middle ones
Median(values) ==
    LET n == Len(values)
    IN  IF n % 2 = 1 THEN KthSmallest(values, (n + 1) \div 2)
        ELSE (KthSmallest(values, n \div 2) + KthSmallest(values, (n \div 2) + 1)) \div 2

\* [int(x) for x in np.median(pixels, axis=0)]
MedianColor(pixels) ==
    IF Cardinality(Range(pixels)) = 1 THEN pixels[1]
    ELSE [ch \in 1..3 |-> Median([i \in DOMAIN pixels |-> pixels[i][ch]])]

\* lines 1176-1194: the sample centre of each cell, row by row
SamplePoints(image, grid_size, row_y_positions) ==
    LET xs == EvenPositions(image.w, grid_size)
    IN  [r \in DOMAIN row_y_positions |->
            [c \in 1..grid_size |-> <<xs[c], row_y_positions[r]>>]]

SampleSize == 5

\* lines 1196-1203: the pixels of roi_color within sample_size of the point,
\* row by row
WindowPixels(image, point) ==
    LET start_y == Max(0, point[2] - SampleSize)
        end_y == Min(image.h, point[2] + SampleSize)
        start_x == Max(0, point[1] - SampleSize)
        end_x == Min(image.w, point[1] + SampleSize)
        rows == Max(0, end_y - start_y)
        cols == Max(0, end_x - start_x)
    IN  [i \in 1..(rows * cols) |->
            PixelAt(image, start_x + ((i - 1) % cols), start_y + ((i - 1) \div cols))]

\* lines 1205-1212: the median of the window, black for an empty window
WindowColor(pixels) ==
    IF pixels = <<>> THEN <<0, 0, 0>> ELSE MedianColor(pixels)

\* int(i * (size / n)): the cell boundaries of lines 1487-1490
Boundary(i, size, n) == (i * size) \div n

\* lines 1481-1490: the box of each cell, <<start_x, end_x, start_y, end_y>>
CellBoxes(image, grid_size) ==
    [r \in 1..grid_size |->
        [c \in 1..grid_size |->
            <<Boundary(c - 1, image.w, grid_size), Boundary(c, image.w, grid_size),
              Boundary(r - 1, image.h, grid_size), Boundary(r, image.h, grid_size)>>]]

\* line 1493: image[start_y:end_y, start_x:end_x], the box taken in the
\* decoded image, row by row
CellPixels(image, box) ==
    LET cols == box[2] - box[1]
        rows == box[4] - box[3]
    IN  [i \in 1..(rows * cols) |->
            FullPixelAt(image, box[1] + ((i - 1) % cols), box[3] + ((i - 1) \div cols))]

\* lines 1508-1522: the pixel is kept; r, g and b are 8-bit values there and
\* so is their sum
ValidPixel(rgb) ==
    LET rgb_sum == (rgb[1] + rgb[2] + rgb[3]) % 256
        min_ch == Min(rgb[1], Min(rgb[2], rgb[3]))
        max_ch == Max(rgb[1], Max(rgb[2], rgb[3]))
    IN  /\ ~(min_ch > 200 \/ max_ch < 40 \/ rgb_sum < 100)
        /\ ~(max_ch - min_ch < 50)

\* lines 1495-1536: black for an empty box, else the median of the pixels
\* kept, or the centre pixel of the box when none is kept
CellColor(image, box) ==
    IF box[1] = box[2] \/ box[3] = box[4] THEN <<0, 0, 0>>
    ELSE LET pixels == CellPixels(image, box)
             valid_pixels == SelectSeq(pixels, ValidPixel)
         IN  IF valid_pixels = <<>>
             THEN FullPixelAt(image, box[1] + ((box[2] - box[1]) \div 2),
                              box[3] + ((box[4] - box[3]) \div 2))
             ELSE MedianColor(valid_pixels)

\* lines 1010-1216 and 1348-1539: the grid, the sample points or boxes and
\* the colour extracted for each cell
Sampling(image) ==
    LET grid == GridDetection(image)
    IN  IF grid.grid_size = None
        THEN [grid |-> grid, samples |-> <<>>, extracted_colors |-> <<>>]
        ELSE IF grid.sampling = "points"
        THEN LET points == SamplePoints(image, Val(grid.grid_size),
                                        grid.row_y_positions)
             IN  [grid |-> grid, samples |-> points,
                  extracted_colors |->
                      [r \in DOMAIN points |->
                          [c \in DOMAIN points[r] |->
                              WindowColor(WindowPixels(image, points[r][c]))]]]
        ELSE LET boxes == CellBoxes(image, Val(grid.grid_size))
             IN  [grid |-> grid, samples |-> boxes,
                  extracted_colors |->
                      [r \in DOMAIN boxes |->
                          [c \in DOMAIN boxes[r] |-> CellColor(image, boxes[r][c])]]]

\* ------------------------------------------ analyze_image: classification
\* lines 1620-1634: the filter of the second path also drops low saturation
FilteredClusterFallback(rgb) ==
    LET min_ch == Min(rgb[1], Min(rgb[2], rgb[3]))
        max_ch == Max(rgb[1], Max(rgb[2], rgb[3]))
        rgb_sum == rgb[1] + rgb[2] + rgb[3]
    IN  min_ch > 200 \/ max_ch < 60 \/ rgb_sum < 120 \/ max_ch - min_ch < 70

RECURSIVE ValidColorsFallback(_, _)
ValidColorsFallback(centers, i) ==
    IF i > Len(centers) THEN <<>>
    ELSE (IF FilteredClusterFallback(centers[i]) THEN <<>> ELSE <<i - 1>>)
         \o ValidColorsFallback(centers, i + 1)

\* lines 1541-1700: the clusters and the ink IDs of the second path; None
\* for the clustering quality failure (one label only).  The centres are
\* taken as the colours they stand for
ClassifyCellsFallback(all_colors, state) ==
    LET km == KMeans(all_colors, state)
        valid_colors == ValidColorsFallback(km.centers, 1)
        colors_filtered == Len(valid_colors) < Len(km.centers)
    IN  IF Cardinality(Range(km.labels)) <= 1 THEN None
        ELSE Some([labels |-> km.labels, centers |-> km.centers,
                   valid_colors |-> valid_colors,
                   pattern |-> RemapLabels(km.labels, valid_colors, colors_filtered)])

NoResponse == [success |-> FALSE, grid_detected |-> FALSE, pattern |-> None,
               extracted_colors |-> None]

Failed == [NoResponse EXCEPT !.grid_detected = TRUE]

Success(pattern, extracted_colors) ==
    [success |-> TRUE, grid_detected |-> TRUE, pattern |-> Some(pattern),
     extracted_colors |-> Some(extracted_colors)]

\* what a call that finds no grid leaves in its locals
NoGrid == [strategy |-> "none", raw |-> None, grid_size |-> None,
           sampling |-> "none", row_y_positions |-> <<>>]

\* lines 873-1748 after the await, from the generator state the call finds:
\* the response, the locals of the grid detection, the sample points or
\* boxes, the colours extracted, the clusters, unique_colors where the call
\* computes it, and the generator state the call leaves
AnalyzeOutcome(image, sampled, state) ==
    IF ~image.decodes \/ ~image.quad
    THEN [response |-> NoResponse, grid |-> NoGrid, samples |-> <<>>,
          extracted |-> <<>>, clusters |-> None,
          unique_colors |-> None, state |-> state]
    ELSE LET after_roi == NextRng(state)
             grid == sampled.grid
             extracted_colors == sampled.extracted_colors
         IN  IF grid.grid_size = None
             THEN [response |-> NoResponse, grid |-> grid, samples |-> <<>>,
                   extracted |-> <<>>, clusters |-> None,
                   unique_colors |-> None, state |-> after_roi]
             ELSE IF grid.sampling = "points"
             THEN LET clusters == ClassifyCells(Flatten(extracted_colors), after_roi)
                      pattern == clusters.pattern
                  IN  [response |->
                          IF Cardinality(Range(pattern)) < 2 THEN Failed
                          ELSE Success(pattern, extracted_colors),
                       grid |-> grid, samples |-> sampled.samples,
                       extracted |-> extracted_colors,
                       clusters |-> Some(clusters),
                       unique_colors |-> Some(Cardinality(Range(pattern))),
                       state |-> NextRng(after_roi)]
             ELSE LET clusters == ClassifyCellsFallback(Flatten(extracted_colors),
                                                        after_roi)
                  IN  [response |->
                          IF clusters = None THEN Failed
                          ELSE IF Cardinality(Range(Val(clusters).pattern)) < 3
                          THEN Failed
                          ELSE Success(Val(clusters).pattern, extracted_colors),
                       grid |-> grid, samples |-> sampled.samples,
                       extracted |-> extracted_colors,
                       clusters |-> clusters,
                       unique_colors |->
                           IF clusters = None THEN None
                           ELSE Some(Cardinality(Range(Val(clusters).pattern))),
                       state |-> NextRng(after_roi)]

Red == <<200, 30, 30>>
Green == <<30, 200, 30>>
Blue == <<30, 30, 200>>
Gray == <<128, 128, 128>>

\* printed tags of n x n cells in three and in two inks
Tile3(n) == [r \in 1..n |-> [c \in 1..n |-> <<Red, Green, Blue>>[((r + c) % 3) + 1]]]
Tile2(n) == [r \in 1..n |-> [c \in 1..n |-> <<Red, Green>>[((r + c) % 2) + 1]]]
\* a tag of n x n cells in the colours of inks
Tile(inks, n) == [r \in 1..n |-> [c \in 1..n |-> inks[((r + c) % Len(inks)) + 1]]]

\* the n + 1 lines bounding n cells across size pixels
GridLines(size, n) == [i \in 1..(n + 1) |-> ((i - 1) * size) \div n]

\* the centroid y of rows rows of per_row components over h pixels
CentroidYs(rows, per_row, h) ==
    [i \in 1..(rows * per_row) |->
        ((2 * ((i - 1) \div per_row) + 1) * h) \div (2 * rows)]

\* lines 990-996: the number of components more than 0.5% and less than 50%
\* of the box in area
LargeComponents(component_sizes, w, h) ==
    Cardinality({i \in DOMAIN component_sizes :
                    /\ 200 * component_sizes[i] > w * h
                    /\ 2 * component_sizes[i] < w * h})

\* the areas of the components of a box with count regions of 1% of the
\* box each, a speck of 0.5% or less and a region of half the box or one
\* pixel less
ComponentSizes(w, h, count) ==
    <<(w * h) \div 200>> \o [i \in 1..count |-> ((w * h) \div 100) + 1]
        \o <<(w * h) \div 2>>

\* the box lies at (x, y) = (0, 0) of the decoded image and no grid line is
\* drawn unless stated
Image(w, h, count, centroid_ys, h_lines, v_lines, cells) ==
    [decodes |-> TRUE, quad |-> TRUE, x |-> 0, y |-> 0, w |-> w, h |-> h,
     component_sizes |-> ComponentSizes(w, h, count),
     detected_count |-> LargeComponents(ComponentSizes(w, h, count), w, h),
     centroid_ys |-> centroid_ys,
     h_lines |-> h_lines, v_lines |-> v_lines, cells |-> cells, line_half |-> 0]

\* bytes that are no image, and an image without a quadrilateral contour
Undecodable == [Image(1, 1, 0, <<>>, <<>>, <<>>, <<>>) EXCEPT !.decodes = FALSE,
                                                              !.quad = FALSE]
NoQuad == [Image(1, 1, 0, <<>>, <<>>, <<>>, <<>>) EXCEPT !.quad = FALSE]

\* a 3x3 tag in three inks with its grid lines
Tag3 == Image(240, 240, 9, CentroidYs(3, 3, 240),
              GridLines(240, 3), GridLines(240, 3), Tile3(3))
\* an 8x8 tag of which only 20 components are found
Tag8Sparse == Image(240, 240, 20, CentroidYs(4, 5, 240),
                    GridLines(240, 8), GridLines(240, 8), Tile3(8))
\* a 6x6 tag with every cell a component
Tag6 == Image(240, 240, 36, CentroidYs(6, 6, 240),
              GridLines(240, 6), GridLines(240, 6), Tile3(6))
\* a 2x2 tag in two inks of which only the border lines are found
Tag2 == Image(240, 240, 4, CentroidYs(2, 2, 240), <<0, 240>>, <<0, 240>>, Tile2(2))
\* an 8x8 tag with every cell a component
Tag8 == Image(240, 240, 64, CentroidYs(8, 8, 240),
              GridLines(240, 8), GridLines(240, 8), Tile3(8))
\* an 8x8 tag of which 50 components are found, in seven rows of
\* centroids; and two rows
Tag7 == Image(240, 240, 50, CentroidYs(7, 8, 240),
              GridLines(240, 8), GridLines(240, 8), Tile3(8))
TwoRows == Image(240, 240, 50, CentroidYs(2, 25, 240), <<>>, <<>>, Tile3(2))
\* nine rows of centroids: with 55 components, and with 64 in three and in
\* two inks
Tag9Lines == Image(180, 180, 55, CentroidYs(9, 7, 180),
                   GridLines(180, 9), GridLines(180, 9), Tile3(9))
Tag9 == Image(180, 180, 64, CentroidYs(9, 8, 180),
              GridLines(180, 9), GridLines(180, 9), Tile3(9))
Tag9TwoInks == Image(180, 180, 64, CentroidYs(9, 8, 180),
                     GridLines(180, 9), GridLines(180, 9), Tile2(9))
\* a box 1100 wide and 2 high over three inks side by side, the lines
\* between them found
Strip == Image(1100, 2, 3, <<0, 0, 0>>, <<>>, GridLines(1100, 3), Tile3(3))

\* the rows of centroids of a 6x6 tag found 10 px below the cell centres
TagShifted == Image(240, 240, 60,
                    [i \in 1..60 |-> CentroidYs(6, 10, 240)[i] + 10],
                    GridLines(240, 6), GridLines(240, 6), Tile3(6))
\* the first two rows found 18 px below the centres, on a tag in two inks
\* whose cells are bounded by black lines 11 px wide
TagOnLines == [Image(240, 240, 60,
                     [i \in 1..60 |-> CentroidYs(6, 10, 240)[i]
                                          + (IF i <= 20 THEN 18 ELSE 0)],
                     GridLines(240, 6), GridLines(240, 6), Tile2(6))
                  EXCEPT !.line_half = 6]
\* 3x3 tags whose third ink is a gray, and whose third cells are unprinted
TagGray == Image(240, 240, 9, CentroidYs(3, 3, 240),
                 GridLines(240, 3), GridLines(240, 3), Tile(<<Red, Green, Gray>>, 3))
TagGap == Image(240, 240, 9, CentroidYs(3, 3, 240),
                GridLines(240, 3), GridLines(240, 3), Tile(<<Red, Green, Paper>>, 3))
\* the 9x9 tag with its box 10 px from the left edge of the photo
Tag9Offset == [Tag9 EXCEPT !.x = 10]

AnalyzeInputs ==
    {Undecodable, NoQuad, Tag3, Tag8Sparse, Tag6, Tag2, Tag8, Tag7, TwoRows,
     Tag9Lines, Tag9, Tag9TwoInks, Strip, TagShifted, TagOnLines, TagGray,
     TagGap, Tag9Offset}

\* Sampling of every input
Sampled == [image \in AnalyzeInputs |-> Sampling(image)]

\* AnalyzeOutcome of every input from every generator state
Outcomes ==
    [image \in AnalyzeInputs |->
        [state \in 0..(CvPeriod - 1) |->
            AnalyzeOutcome(image, Sampled[image], state)]]

AnalyzeSlots == 1..MaxAnalyze

\* no call in the slot; grid and samples are the locals of the detection
AnalyzeIdle == [pc |-> "idle", image |-> None, response |-> None,
                grid |-> NoGrid, samples |-> <<>>, extracted |-> <<>>,
                clusters |-> None, unique_colors |-> None]

\* lines 869-875: the seeds are set, then the handler awaits the upload
AnalyzeBegin(slot, image) ==
    /\ ac[slot].pc = "idle"
    /\ pyRandom' = RandomSeed
    /\ npRandom' = RandomSeed
    /\ ac' = [ac EXCEPT ![slot] = [AnalyzeIdle EXCEPT !.pc = "read",
                                                      !.image = Some(image)]]
    /\ UNCHANGED <<dbVars, cvRng>>

\* lines 876-1748: the rest of the handler runs without another await
AnalyzeRun(slot) ==
    /\ ac[slot].pc = "read"
    /\ \E outcome \in {Outcomes[Val(ac[slot].image)][cvRng]} :
           /\ cvRng' = outcome.state
           /\ ac' = [ac EXCEPT ![slot].pc = "done",
                               ![slot].response = Some(outcome.response),
                               ![slot].grid = outcome.grid,
                               ![slot].samples = outcome.samples,
                               ![slot].extracted = outcome.extracted,
                               ![slot].clusters = outcome.clusters,
                               ![slot].unique_colors = outcome.unique_colors]
    /\ UNCHANGED <<dbVars, pyRandom, npRandom>>

AnalyzeReturn(slot) ==
    /\ ac[slot].pc = "done"
    /\ ac' = [ac EXCEPT ![slot] = AnalyzeIdle]
    /\ UNCHANGED <<dbVars, pyRandom, npRandom, cvRng>>

\* ---------------------------------------------------------- specification
\* after startup: empty tables, generators as the imports left them
Init ==
    /\ patterns = <<>>
    /\ verification_logs = <<>>
    /\ vc = Idle
    /\ pyRandom = 0
    /\ npRandom = 0
    /\ cvRng = 0
    /\ ac = [slot \in AnalyzeSlots |-> AnalyzeIdle]
    /\ mc = NoCall

NextVerify ==
    \/ \E metadata \in StoreInputs : StorePattern(metadata)
    \/ \E request \in VerifyInputs : VerifyBegin(request)
    \/ VerifyMatch
    \/ VerifyLookup
    \/ VerifyLog
    \/ VerifyLogFails
    \/ VerifyReturn

NextAnalyze ==
    \/ \E slot \in AnalyzeSlots, image \in AnalyzeInputs : AnalyzeBegin(slot, image)
    \/ \E slot \in AnalyzeSlots : AnalyzeRun(slot)
    \/ \E slot \in AnalyzeSlots : AnalyzeReturn(slot)

NextMetadata ==
    \/ \E metadata \in MetadataInputs : GeneratePdf(metadata)
    \/ \E metadata \in MetadataInputs : StorePattern(metadata)
    \/ \E endpoint \in {"generate-pdf", "store-pattern"}, metadata \in MetadataInputs :
          validation_exception_handler(endpoint, metadata)

Next == NextVerify \/ NextAnalyze \/ NextMetadata

\* the registry side and the image side share no variable: each is checked
\* on its own
SpecVerify == Init /\ [][NextVerify]_vars
SpecAnalyze == Init /\ [][NextAnalyze]_vars
SpecMetadata == Init /\ [][NextMetadata]_vars
Spec == Init /\ [][Next]_vars

\* ------------------------------------------------------------------ claims
ValidGrid(pattern) == \E n \in 3..8 : Len(pattern) = n * n
DistinctCount(pattern) == Cardinality(Range(pattern))
ValidPattern(pattern) == ValidGrid(pattern) /\ DistinctCount(pattern) \in 2..5

PatternDetails ==
    {"Pattern must form a square grid from 3x3 to 8x8",
     "Pattern must use at least 2 unique colors",
     "Pattern must use at most 5 unique colors"}

\* the call has ended in a 400 on its pattern
PatternRejected ==
    /\ vc.pc = "done"
    /\ vc.error # None
    /\ Val(vc.error).status = 400
    /\ Val(vc.error).detail \in PatternDetails

\* the call has returned a response
Responded == vc.pc = "done" /\ vc.response # None

Injective(f) == \A a, b \in DOMAIN f : f[a] = f[b] => a = b

\* C1: a call is rejected with a validation error on its pattern exactly when
\* the pattern's length is no N*N with 3 <= N <= 8 or it has fewer than 2 or
\* more than 5 distinct values; every other pattern passes that validation.
C1_PatternValidation ==
    vc.pc # "idle" =>
        (PatternRejected <=> ~ValidPattern(Val(vc.request).pattern))

C1_Witness ==
    /\ Responded
    /\ Len(Val(vc.request).pattern) = 64
    /\ DistinctCount(Val(vc.request).pattern) = 5

\* C2: a call without extracted colours whose pattern equals, element by
\* element, the pattern of a record the registry held when the call began
\* answers found = true with confidence 1.0.
C2_ExactMatch ==
    (/\ Responded
     /\ ~HasColors(Val(vc.request))
     /\ \E i \in 1..vc.reg0 : EvalList(patterns[i].pattern) = Val(vc.request).pattern)
    => /\ Val(vc.response).found
       /\ Val(vc.response).matches # <<>>
       /\ \A i \in DOMAIN Val(vc.response).matches :
             Val(vc.response).matches[i].confidence = One

C2_Witness ==
    /\ Responded
    /\ Val(vc.request) = [pattern |-> P1, extracted_colors |-> None]
    /\ vc.reg0 >= 1
    /\ Val(vc.response).found

\* the last row of verification_logs carries what the call has answered
LogCarriesResponse ==
    LET row == verification_logs[Len(verification_logs)]
        response == Val(vc.response)
    IN  /\ EvalList(row.pattern_input) = Val(vc.request).pattern
        /\ row.found = response.found
        /\ IF response.found
           THEN /\ row.matched_pattern_id # None
                /\ \E i \in DOMAIN response.matches :
                      response.matches[i].id = Val(row.matched_pattern_id)
                /\ row.confidence = Some(response.matches[1].confidence)
           ELSE /\ row.matched_pattern_id = None
                /\ row.confidence = None

\* C3 as stated: every call, once over, has appended exactly one record
\* carrying its pattern and its outcome.
C3_EveryCallLogged ==
    vc.pc = "done" =>
        /\ Len(verification_logs) = vc.log0 + 1
        /\ vc.response # None
        /\ LogCarriesResponse

\* C3 amended: a call that returns a result, matched or not, has appended
\* exactly one record carrying the pattern, the found flag, the ID of a
\* matched record if any and the confidence; a call that ends in an error
\* has appended none.
C3_ResponseLogged ==
    vc.pc = "done" =>
        IF vc.response # None
        THEN Len(verification_logs) = vc.log0 + 1 /\ LogCarriesResponse
        ELSE Len(verification_logs) = vc.log0

C3_Witness ==
    /\ Responded
    /\ ~Val(vc.response).found
    /\ Len(verification_logs) = vc.log0 + 1

\* C4: a call whose log write failed still returns the result it had
\* computed, never an error.
C4_LogFailureHarmless ==
    (vc.pc = "done" /\ vc.log_failed) =>
        /\ vc.error = None
        /\ vc.response = Some([found |-> vc.found, matches |-> vc.matches,
                               partial_matches |-> <<>>])

\* C5: a call rejected on its pattern has read no candidate from the registry
\* and compared none, and its error names the bound violated.
C5_RejectedBeforeMatching ==
    (vc.pc # "idle" /\ ~ValidPattern(Val(vc.request).pattern)) =>
        LET pattern == Val(vc.request).pattern
        IN  /\ PatternRejected
            /\ vc.reads = 0
            /\ vc.candidates = <<>>
            /\ vc.id_mappings = <<>>
            /\ vc.matches = <<>>
            /\ (ValidGrid(pattern) /\ DistinctCount(pattern) > 5) =>
                   Val(vc.error).detail = "Pattern must use at most 5 unique colors"
            /\ (ValidGrid(pattern) /\ DistinctCount(pattern) < 2) =>
                   Val(vc.error).detail = "Pattern must use at least 2 unique colors"
            /\ ~ValidGrid(pattern) =>
                   Val(vc.error).detail = "Pattern must form a square grid from 3x3 to 8x8"

C5_Witness ==
    /\ PatternRejected
    /\ Len(patterns) > 0
    /\ Len(Val(vc.request).pattern) = 9
    /\ DistinctCount(Val(vc.request).pattern) = 6
    /\ Val(vc.error).detail = "Pattern must use at most 5 unique colors"

\* C6: the greedy assignment built for a candidate maps no two scanned IDs to
\* the same stored ID, in the order the call used and in every other order
\* of the scanned and of the stored IDs.
C6_GreedyInjective ==
    /\ \A i \in DOMAIN vc.id_mappings : Injective(vc.id_mappings[i])
    /\ \A i \in DOMAIN vc.candidates :
          LET palette == CandidatePalette(vc.id_to_rgb, vc.candidates[i])
          IN  palette # None =>
                  \A scanned_order \in Perms(DOMAIN vc.id_to_rgb),
                     stored_order \in Perms(DOMAIN Val(palette)) :
                      LET id_mapping == GreedyFrom(scanned_order, stored_order,
                                            vc.id_to_rgb, Val(palette), <<>>, {})
                      IN  /\ Injective(id_mapping)
                          /\ DOMAIN id_mapping = DOMAIN vc.id_to_rgb

C6_Witness ==
    /\ vc.id_mappings # <<>>
    /\ \E i \in DOMAIN vc.id_mappings : Cardinality(DOMAIN vc.id_mappings[i]) = 2
    /\ Val(vc.request).extracted_colors = Some(CellColors(ScanNear))

\* the call has run the Mode B loop over its candidates
ModeBRan ==
    /\ vc.pc \in {"lookup", "log", "done"}
    /\ HasColors(Val(vc.request))
    /\ vc.reads >= 1

Bijections(S) == {f \in [S -> S] : {f[x] : x \in S} = S}

Relabel(pattern, f) == [i \in DOMAIN pattern |-> f[pattern[i]]]

BestId(best_match) == IF best_match = None THEN None ELSE Some(Val(best_match).id)

\* the best match of the loop for the same cells with the scanned IDs
\* renamed by f, against the candidates the call fetched
RelabelledBest(f) ==
    LET pattern == Relabel(Val(vc.request).pattern, f)
        scan == ColorScan(pattern, Val(Val(vc.request).extracted_colors))
    IN  BestId(BestMatch(pattern, scan.id_to_rgb, vc.candidates))

\* no two scanned IDs have colours within 5 of each other in every channel
Distinguishable(id_to_rgb) ==
    \A a, b \in DOMAIN id_to_rgb :
        a # b => ~(/\ Abs(id_to_rgb[a][1] - id_to_rgb[b][1]) < 5
                   /\ Abs(id_to_rgb[a][2] - id_to_rgb[b][2]) < 5
                   /\ Abs(id_to_rgb[a][3] - id_to_rgb[b][3]) < 5)

\* C7: with distinguishable scanned colours, the same cells submitted under
\* permuted scanned IDs have the same best-matching record.
C7_RelabelInvariant ==
    (ModeBRan /\ Distinguishable(vc.id_to_rgb)) =>
        \A f \in Bijections(DOMAIN vc.id_to_rgb) :
            RelabelledBest(f) = BestId(vc.best_match)

\* palette colours farther apart than twice the distance sqrt(3 * 15^2) of a
\* colour to itself brightened by 15: each brightened colour stays nearest
\* to its own
Separated(palette) ==
    \A a, b \in DOMAIN palette :
        a # b => Dist2(palette[a], palette[b]) > 4 * (3 * 15 * 15)

\* every cell of the request has the colour candidate stores for the cell's
\* ink brightened by 15 in each channel, and candidate stores that pattern
ShiftedScanOf(candidate) ==
    /\ candidate.material_colors # None
    /\ EvalList(candidate.pattern) = Val(vc.request).pattern
    /\ LET palette == StoredIdToRgb(Val(candidate.material_colors))
           pattern == Val(vc.request).pattern
           colors == Val(Val(vc.request).extracted_colors)
           n == Isqrt(Len(pattern))
       IN  /\ Separated(palette)
           /\ Range(pattern) \subseteq DOMAIN palette
           /\ Len(colors) = n
           /\ \A r \in 1..n :
                 /\ Len(colors[r]) = n
                 /\ \A c \in 1..n :
                       LET rgb == palette[pattern[(r - 1) * n + c]]
                       IN  colors[r][c] = <<rgb[1] + 15, rgb[2] + 15, rgb[3] + 15>>

Reported == Val(vc.response).matches[1]

\* the record the response reports is candidate, or a record stored with the
\* same pattern and the same palette
ReportedIs(candidate) ==
    \E j \in DOMAIN vc.candidates :
        /\ vc.candidates[j].id = Reported.id
        /\ vc.candidates[j].pattern = candidate.pattern
        /\ vc.candidates[j].material_colors = candidate.material_colors

\* C10 as stated: the call reports that record, through Mode B, with a
\* confidence strictly between 0.5 and 1.0.
C10_ShiftedMatchesRecord ==
    (Responded /\ HasColors(Val(vc.request))) =>
        \A i \in DOMAIN vc.candidates :
            ShiftedScanOf(vc.candidates[i]) =>
                /\ Val(vc.response).found
                /\ vc.best_match # None
                /\ ReportedIs(vc.candidates[i])
                /\ 2 * Reported.confidence.num > Reported.confidence.den
                /\ Reported.confidence.num < Reported.confidence.den

\* C10 amended: the call finds a match through Mode B with a confidence
\* above 0.5 and no lower than that record's own; the record reported is
\* that one, with a confidence strictly between 0.5 and 1.0, unless another
\* candidate matches after remapping with a confidence at least as high.
C10_ShiftedMatches ==
    (Responded /\ HasColors(Val(vc.request))) =>
        \A i \in DOMAIN vc.candidates :
            ShiftedScanOf(vc.candidates[i]) =>
                LET own == MatchCandidate(Val(vc.request).pattern, vc.id_to_rgb,
                                          vc.candidates[i])
                IN  /\ Val(vc.response).found
                    /\ vc.best_match # None
                    /\ Len(Val(vc.response).matches) = 1
                    /\ own # None
                    /\ 2 * Val(own).confidence.num > Val(own).confidence.den
                    /\ Val(own).confidence.num < Val(own).confidence.den
                    /\ Reported.confidence.den = Val(own).confidence.den
                    /\ Reported.confidence.num >= Val(own).confidence.num
                    /\ Reported.id = vc.candidates[i].id =>
                           Reported.confidence = Val(own).confidence
                    /\ Reported.id # vc.candidates[i].id =>
                           \E j \in DOMAIN vc.candidates :
                               /\ j # i
                               /\ Reported.id = vc.candidates[j].id
                               /\ MatchCandidate(Val(vc.request).pattern, vc.id_to_rgb,
                                                 vc.candidates[j]) # None

C10_Witness ==
    /\ Responded
    /\ HasColors(Val(vc.request))
    /\ \E i \in DOMAIN vc.candidates :
          /\ ShiftedScanOf(vc.candidates[i])
          /\ Reported.id = vc.candidates[i].id
          /\ 2 * Reported.confidence.num > Reported.confidence.den
          /\ Reported.confidence.num < Reported.confidence.den

\* C8: two calls on the same image have the same response, whatever calls
\* ran before or between them.
C8_SameImageSameResponse ==
    \A a, b \in AnalyzeSlots :
        (/\ ac[a].pc = "done"
         /\ ac[b].pc = "done"
         /\ ac[a].image = ac[b].image)
        => ac[a].response = ac[b].response

\* C9: no step of a call changes the stored records or a process-wide
\* generator, and the log only grows.
C9_NoSharedMutation ==
    [][/\ patterns' = patterns
       /\ Len(verification_logs') >= Len(verification_logs)
       /\ SubSeq(verification_logs', 1, Len(verification_logs)) = verification_logs
       /\ <<pyRandom, npRandom, cvRng>>' = <<pyRandom, npRandom, cvRng>>]_vars

\* extracted_colors is absent or empty, or has one row per grid row, each of
\* one RGB triple per grid column
WellFormedColors(request) ==
    HasColors(request) =>
        LET colors == Val(request.extracted_colors)
            n == Isqrt(Len(request.pattern))
        IN  /\ Len(colors) = n
            /\ \A r \in 1..n :
                  /\ Len(colors[r]) = n
                  /\ \A c \in 1..n : Len(colors[r][c]) = 3

\* no stored record has the submitted pattern and, with colours supplied, none
\* equals the pattern remapped by its greedy assignment
NoRecordMatches ==
    \A i \in DOMAIN patterns :
        /\ EvalList(patterns[i].pattern) # Val(vc.request).pattern
        /\ HasColors(Val(vc.request)) =>
               MatchCandidate(Val(vc.request).pattern, vc.id_to_rgb, patterns[i]) = None

\* C11: a call on a well-formed request that no stored record matches, whose
\* log row is written, has returned found = false with no matches, and no error.
C11_NoMatchReturnsNotFound ==
    (/\ vc.pc = "done"
     /\ ~vc.log_failed
     /\ ValidPattern(Val(vc.request).pattern)
     /\ WellFormedColors(Val(vc.request))
     /\ NoRecordMatches)
    => /\ vc.error = None
       /\ vc.response = Some([found |-> FALSE, matches |-> <<>>,
                              partial_matches |-> <<>>])

C11_Witness ==
    /\ Responded
    /\ HasColors(Val(vc.request))
    /\ WellFormedColors(Val(vc.request))
    /\ NoRecordMatches
    /\ vc.id_mappings # <<>>
    /\ ~Val(vc.response).found

\* the call has ended in a 400
ValidationRejected ==
    /\ vc.pc = "done"
    /\ vc.error # None
    /\ Val(vc.error).status = 400

\* C12: a call whose extracted_colors is not N rows of N RGB triples ends in a
\* validation error, with nothing read from the registry.
C12_MalformedColorsRejected ==
    (/\ vc.pc # "idle"
     /\ ValidPattern(Val(vc.request).pattern)
     /\ ~WellFormedColors(Val(vc.request)))
    => ValidationRejected /\ vc.reads = 0

\* the call in the slot has answered success = true
AnalyzeSucceeded(slot) ==
    /\ ac[slot].pc = "done"
    /\ Val(ac[slot].response).success

\* the response of the slot is an N x N grid for the N the detection used: N
\* in 3..8, N*N ink IDs, N rows of N colours and of N samples, the ID at
\* (r - 1) * N + c being that of row r and column c (equal colours, equal IDs)
GridShape(slot) ==
    LET response == Val(ac[slot].response)
        pattern == Val(response.pattern)
        extracted_colors == Val(response.extracted_colors)
        samples == ac[slot].samples
        grid_size == Val(ac[slot].grid.grid_size)
    IN  /\ grid_size \in 3..8
        /\ Len(pattern) = grid_size * grid_size
        /\ Len(extracted_colors) = grid_size
        /\ Len(samples) = grid_size
        /\ \A r \in 1..grid_size :
              /\ Len(extracted_colors[r]) = grid_size
              /\ Len(samples[r]) = grid_size
        /\ \A r1, c1, r2, c2 \in 1..grid_size :
              extracted_colors[r1][c1] = extracted_colors[r2][c2]
              => pattern[(r1 - 1) * grid_size + c1] = pattern[(r2 - 1) * grid_size + c2]

\* no two cells of the slot's grid were sampled at the same point or box
DistinctSamples(slot) ==
    LET samples == ac[slot].samples
    IN  \A r1, r2 \in DOMAIN samples :
            \A c1 \in DOMAIN samples[r1], c2 \in DOMAIN samples[r2] :
                <<r1, c1>> # <<r2, c2>> => samples[r1][c1] # samples[r2][c2]

\* the structural part of C13: every successful response is an N x N grid
SuccessIsGrid ==
    \A slot \in AnalyzeSlots : AnalyzeSucceeded(slot) => GridShape(slot)

EstimateOutOfRange(slot) ==
    /\ ac[slot].grid.raw # None
    /\ Val(ac[slot].grid.raw) \notin 3..8

\* C14: a finished call reports grid_detected = false exactly when no
\* quadrilateral was found or the chosen strategy's estimate is outside 3..8,
\* so no call samples a grid after an estimate outside 3..8.
C14_NotDetectedExactly ==
    \A slot \in AnalyzeSlots :
        ac[slot].pc = "done"
        => /\ ~Val(ac[slot].response).grid_detected
              <=> (~Val(ac[slot].image).quad \/ EstimateOutOfRange(slot))
           /\ EstimateOutOfRange(slot) => ac[slot].samples = <<>>

\* the call in the slot has finished on an image with a quadrilateral
Detected(slot) ==
    /\ ac[slot].pc = "done"
    /\ Val(ac[slot].image).quad

\* the number of centroid rows of every input
RowCount == [image \in AnalyzeInputs |-> Len(CentroidRows(image))]

\* fewer than 50 valid components, or a size estimate from them below 6
FewComponents(image) ==
    image.detected_count < 50 \/ EstimatedFromComponents(image.detected_count) < 6

C16_SuccessIffTwoToFiveInks ==
    \A slot \in AnalyzeSlots :
        (ac[slot].pc = "done" /\ ac[slot].unique_colors # None)
        => /\ Val(ac[slot].response).grid_detected
           /\ Val(ac[slot].response).success
              <=> Val(ac[slot].unique_colors) \in 2..5

\* metadata as the interface describes the accepted ones
WellFormedMetadata(m) ==
    /\ m.grid_size \in 3..32
    /\ Len(m.pattern) = m.grid_size
    /\ \A r \in DOMAIN m.pattern :
          /\ Len(m.pattern[r]) = m.grid_size
          /\ \A c \in DOMAIN m.pattern[r] :
                /\ m.pattern[r][c] >= 0
                /\ m.material_colors = None => m.pattern[r][c] \in 0..5

\* C17: the last call of /generate-pdf or /store-pattern was accepted if its
\* metadata has grid_size in 3..32, grid_size rows of grid_size cells, no
\* negative cell and, without custom colours, only cells in 0..5; if not it
\* was answered 422, with no PDF and no record added.
C17_MetadataAcceptedExactly ==
    mc.endpoint # "none"
    => IF WellFormedMetadata(Val(mc.metadata))
       THEN mc.status = 200 /\ mc.success
       ELSE /\ mc.status = 422
            /\ ~mc.success
            /\ mc.pdf = None
            /\ Len(patterns) = mc.reg0

\* a 33x33 grid was refused by /store-pattern with a record already stored
C17_Witness ==
    /\ mc.endpoint = "store-pattern"
    /\ mc.status = 422
    /\ Val(mc.metadata).grid_size = 33
    /\ Len(Val(mc.metadata).pattern) = 33
    /\ patterns # <<>>
    /\ Len(patterns) = mc.reg0

\* no candidate of the call equals the pattern remapped by its assignment
NoRemappedMatch ==
    \A i \in DOMAIN vc.candidates :
        MatchCandidate(Val(vc.request).pattern, vc.id_to_rgb, vc.candidates[i]) = None

\* the response of the exact lookup of pattern in the first k records
LookupResponse(pattern, k) ==
    LET matching_patterns == FindMatchingPatterns(SubSeq(patterns, 1, k), pattern)
    IN  [found |-> Len(matching_patterns) > 0,
         matches |-> [i \in DOMAIN matching_patterns |->
                         [id |-> matching_patterns[i].id, confidence |-> One]],
         partial_matches |-> <<>>]

\* C18: a call with colours none of whose candidates matches after remapping
\* has read the registry a second time and answers what the exact lookup of
\* its pattern as submitted gives, in the registry as it was at some moment
\* of the call.
C18_FallsBackToExactLookup ==
    (Responded /\ HasColors(Val(vc.request)) /\ NoRemappedMatch)
    => /\ vc.reads = 2
       /\ \E k \in vc.reg0..Len(patterns) :
             Val(vc.response) = LookupResponse(Val(vc.request).pattern, k)

\* colours were supplied, an assignment was built and gave no match, and the
\* exact lookup found the pattern as submitted
C18_Witness ==
    /\ Responded
    /\ HasColors(Val(vc.request))
    /\ NoRemappedMatch
    /\ vc.id_mappings # <<>>
    /\ vc.reads = 2
    /\ Val(vc.response).found
    /\ Val(vc.response).matches[1].confidence = One

\* the matches of the call's candidates after remapping, in candidate order
RemappedMatches ==
    [i \in DOMAIN vc.candidates |->
        MatchCandidate(Val(vc.request).pattern, vc.id_to_rgb, vc.candidates[i])]

\* the call reports, through Mode B, one of the matching candidates, and none
\* of them has a higher confidence
BestRemappedMatchReported ==
    /\ vc.best_match # None
    /\ Val(vc.response).found
    /\ Len(Val(vc.response).matches) = 1
    /\ \E i \in DOMAIN vc.candidates :
          /\ RemappedMatches[i] # None
          /\ Reported = Val(RemappedMatches[i])
    /\ \A i \in DOMAIN vc.candidates :
          RemappedMatches[i] # None
          => Val(RemappedMatches[i]).confidence.num <= Reported.confidence.num

\* every channel of the colours of the call's scanned IDs is in 0..255
ScanInRange ==
    \A id \in DOMAIN vc.id_to_rgb :
        \A ch \in 1..3 : vc.id_to_rgb[id][ch] \in 0..255

\* C19 for colours in 0..255: every matching candidate then has a confidence
\* above 0
InRangeMatchReported ==
    (/\ Responded
     /\ HasColors(Val(vc.request))
     /\ ScanInRange
     /\ \E i \in DOMAIN vc.candidates : RemappedMatches[i] # None)
    => BestRemappedMatchReported

\* C19: a call with colours, one of whose candidates equals the pattern
\* remapped by its assignment, reports a match through Mode B, and the
\* candidate reported has the highest confidence of all such candidates.
C19_BestRemappedMatch ==
    (/\ Responded
     /\ HasColors(Val(vc.request))
     /\ \E i \in DOMAIN vc.candidates : RemappedMatches[i] # None)
    => BestRemappedMatchReported

\* the cells, by row and column, that carry ink id in the call's pattern
CellsOf(id) ==
    LET pattern == Val(vc.request).pattern
        n == Isqrt(Len(pattern))
    IN  {cell \in (1..n) \X (1..n) : pattern[(cell[1] - 1) * n + cell[2]] = id}

\* C20: the colour the call uses for a scanned ink ID is, in each channel,
\* the average of the samples of all cells carrying that ID, to the nearest
\* integer below or above.
C20_ScannedColorIsAverage ==
    (/\ vc.pc \notin {"idle"}
     /\ ValidPattern(Val(vc.request).pattern)
     /\ HasColors(Val(vc.request))
     /\ WellFormedColors(Val(vc.request)))
    => \A id \in Range(Val(vc.request).pattern) :
           /\ id \in DOMAIN vc.id_to_rgb
           /\ \A ch \in 1..3 :
                 LET colors == Val(Val(vc.request).extracted_colors)
                     samples == [cell \in CellsOf(id) |-> colors[cell[1]][cell[2]][ch]]
                     total == SumOver(CellsOf(id), samples)
                     count == Cardinality(CellsOf(id))
                 IN  /\ count * vc.id_to_rgb[id][ch] > total - count
                     /\ count * vc.id_to_rgb[id][ch] < total + count

\* the rule that does hold: the colour of an ID is the sample of the first
\* cell, in row-major order, that carries it
ScannedColorIsFirstSample ==
    (/\ vc.pc \notin {"idle"}
     /\ ValidPattern(Val(vc.request).pattern)
     /\ HasColors(Val(vc.request))
     /\ WellFormedColors(Val(vc.request)))
    => \A id \in Range(Val(vc.request).pattern) :
           /\ id \in DOMAIN vc.id_to_rgb
           /\ LET pattern == Val(vc.request).pattern
                  n == Isqrt(Len(pattern))
                  first == CHOOSE i \in DOMAIN pattern :
                               /\ pattern[i] = id
                               /\ \A j \in 1..(i - 1) : pattern[j] # id
              IN  vc.id_to_rgb[id] =
                      Val(Val(vc.request).extracted_colors)[((first - 1) \div n) + 1]
                                                           [((first - 1) % n) + 1]

\* what one pass of the call over the first k records answers: the best
\* match after remapping when colours were supplied and there is one, else
\* the exact lookup
SnapshotResponse(k) ==
    LET request == Val(vc.request)
        table == SubSeq(patterns, 1, k)
        candidates == GetPatternsByGridSize(table, Isqrt(Len(request.pattern)))
        best_match == IF HasColors(request)
                      THEN BestMatch(request.pattern, vc.id_to_rgb, candidates)
                      ELSE None
    IN  IF best_match # None
        THEN [found |-> TRUE,
              matches |-> <<[id |-> Val(best_match).id,
                             confidence |-> Val(best_match).confidence]>>,
              partial_matches |-> <<>>]
        ELSE LookupResponse(request.pattern, k)

\* C21: the answer of a call is what the matching gives on one snapshot of
\* the registry, the registry as it was at some moment of the call, whatever
\* records were stored between the steps of the call.
C21_SingleSnapshot ==
    Responded
    => \E k \in vc.reg0..Len(patterns) : Val(vc.response) = SnapshotResponse(k)

\* the answers of a call stay those of one snapshot when nothing is stored
\* while it runs
QuietCallIsSnapshot ==
    (Responded /\ Len(patterns) = vc.reg0)
    => Val(vc.response) = SnapshotResponse(vc.reg0)

\* the centre, in the coordinates of the box, of what the call sampled for
\* the cell: the point itself, or the middle of the cell box taken in the
\* decoded image
SampleCentre(call, r, c) ==
    IF call.grid.sampling = "points" THEN call.samples[r][c]
    ELSE LET box == call.samples[r][c]
         IN  <<((box[1] + box[2]) \div 2) - Val(call.image).x,
               ((box[3] + box[4]) \div 2) - Val(call.image).y>>

\* the even centre ((col + 0.5) / N * width, (row + 0.5) / N * height)
EvenCentre(image, n, r, c) ==
    <<EvenPositions(image.w, n)[c], EvenPositions(image.h, n)[r]>>

\* C22: once N is fixed, every cell (row, col) is sampled at its even centre
\* of the box on either path (to the pixel the rounding gives); the detected
\* row positions are not used as sample coordinates.
C22_SampledAtEvenCentres ==
    \A slot \in AnalyzeSlots :
        (ac[slot].pc = "done" /\ ac[slot].grid.grid_size # None)
        => LET call == ac[slot]
               n == Val(call.grid.grid_size)
           IN  \A r \in 1..n, c \in 1..n :
                   /\ Abs(SampleCentre(call, r, c)[1]
                          - EvenCentre(Val(call.image), n, r, c)[1]) <= 1
                   /\ Abs(SampleCentre(call, r, c)[2]
                          - EvenCentre(Val(call.image), n, r, c)[2]) <= 1

\* the columns of the point path are the even centres, and so are the rows
\* that the line strategy or the forced 8x8 grid generates
ColumnsAtEvenCentres ==
    \A slot \in AnalyzeSlots :
        (ac[slot].pc = "done" /\ ac[slot].grid.sampling = "points")
        => LET call == ac[slot]
               n == Val(call.grid.grid_size)
           IN  \A r \in 1..n, c \in 1..n :
                   /\ call.samples[r][c][1] = EvenCentre(Val(call.image), n, r, c)[1]
                   /\ (call.grid.strategy = "hough" \/ Val(call.grid.raw) = 7)
                      => call.samples[r][c][2] = EvenCentre(Val(call.image), n, r, c)[2]

\* the colour-region strategy fixed the outcome of the finished call
RegionsTrusted(slot) ==
    /\ Detected(slot)
    /\ ac[slot].grid.strategy \in {"centroids", "components"}

\* C23: when the colour-region strategy is trusted, N is the rounded square
\* root of the number of valid components (those of more than 0.5% and less
\* than 50% of the box), clamped into 3..8.
C23_SizeIsRootOfComponentCount ==
    \A slot \in AnalyzeSlots :
        RegionsTrusted(slot)
        => ac[slot].grid.grid_size =
               Some(Clamp(EstimatedFromComponents(Val(ac[slot].image).detected_count)))

\* what the trusted strategy computes: up to 8 rows of centroids give their
\* number as N (7 is taken as 8, fewer than 3 as no grid); more rows give
\* the side of the least square holding the components, clamped
SizeIsFromCentroidRows ==
    \A slot \in AnalyzeSlots :
        RegionsTrusted(slot)
        => LET image == Val(ac[slot].image)
               rows == RowCount[image]
           IN  ac[slot].grid.grid_size =
                   IF rows < 3 THEN None
                   ELSE IF rows <= 6 THEN Some(rows)
                   ELSE IF rows <= 8 THEN Some(8)
                   ELSE Some(ComponentGridSize(image.detected_count))

\* the pixel survives the stated filters: not near-white (min > 200), not
\* near-black (max < 40 or sum < 100) and not low in saturation
\* (max - min < 50)
StatedValidPixel(rgb) ==
    LET rgb_sum == rgb[1] + rgb[2] + rgb[3]
        min_ch == Min(rgb[1], Min(rgb[2], rgb[3]))
        max_ch == Max(rgb[1], Max(rgb[2], rgb[3]))
    IN  ~(min_ch > 200) /\ ~(max_ch < 40 \/ rgb_sum < 100) /\ ~(max_ch - min_ch < 50)

\* the stated colour of a cell: the median of the surviving pixels of its
\* window, or the centre pixel when none survives
StatedColor(pixels, centre) ==
    LET valid_pixels == SelectSeq(pixels, StatedValidPixel)
    IN  IF valid_pixels = <<>> THEN centre ELSE MedianColor(valid_pixels)

\* the stated colours of the cells of every input, from the windows and the
\* boxes the call takes
StatedColors ==
    [image \in AnalyzeInputs |->
        LET sampled == Sampled[image]
        IN  [r \in DOMAIN sampled.samples |->
                [c \in DOMAIN sampled.samples[r] |->
                    LET at == sampled.samples[r][c]
                    IN  IF sampled.grid.sampling = "points"
                        THEN StatedColor(WindowPixels(image, at),
                                         PixelAt(image, at[1], at[2]))
                        ELSE StatedColor(CellPixels(image, at),
                                 FullPixelAt(image, at[1] + ((at[2] - at[1]) \div 2),
                                             at[3] + ((at[4] - at[3]) \div 2)))]]]

\* C24: the colour of every cell of every analyzed image is the per-channel
\* median of the pixels of its window that survive the filters, or the
\* centre pixel when none survives.
C24_ColorIsFilteredMedian ==
    \A slot \in AnalyzeSlots :
        (ac[slot].pc = "done" /\ ac[slot].grid.grid_size # None)
        => ac[slot].extracted = StatedColors[Val(ac[slot].image)]


\* C25: a colour cluster is rejected exactly when its RGB centroid is
\* near-white, near-black, low in sum or low in saturation under the
\* thresholds of the per-pixel filter (200, 40, 100, 50).
C25_ClusterFilterIsPixelFilter ==
    \A slot \in AnalyzeSlots :
        (ac[slot].pc = "done" /\ ac[slot].clusters # None)
        => LET clusters == Val(ac[slot].clusters)
           IN  \A i \in DOMAIN clusters.centers :
                   ((i - 1) \notin Range(clusters.valid_colors))
                   <=> ~StatedValidPixel(clusters.centers[i])


\* the pattern and the clusters of a call that answered success
Classified(slot) ==
    /\ ac[slot].pc = "done"
    /\ Val(ac[slot].response).success
    /\ ac[slot].clusters # None

\* C26: after merging and filtering the ink IDs are exactly 0..m-1 for the m
\* surviving clusters, each cell carries the renumbered ID of its cluster,
\* and two cells share an ID only when they belong to the same cluster.
C26_DenseRenumbering ==
    \A slot \in AnalyzeSlots :
        Classified(slot)
        => LET clusters == Val(ac[slot].clusters)
               m == Len(clusters.valid_colors)
           IN  /\ Range(clusters.pattern) = 0..(m - 1)
               /\ \A i \in DOMAIN clusters.pattern :
                      /\ clusters.labels[i] \in Range(clusters.valid_colors)
                      /\ clusters.pattern[i]
                             = IndexOf(clusters.valid_colors, clusters.labels[i]) - 1
               /\ \A i, j \in DOMAIN clusters.pattern :
                      clusters.pattern[i] = clusters.pattern[j]
                      => clusters.labels[i] = clusters.labels[j]

\* the cells of the surviving clusters carry the rank of their cluster among
\* the survivors, and no ID is m or more
KeptCellsRenumbered ==
    \A slot \in AnalyzeSlots :
        Classified(slot)
        => LET clusters == Val(ac[slot].clusters)
           IN  \A i \in DOMAIN clusters.pattern :
                   /\ clusters.pattern[i] \in 0..(Len(clusters.valid_colors) - 1)
                   /\ clusters.labels[i] \in Range(clusters.valid_colors)
                      => clusters.pattern[i]
                             = IndexOf(clusters.valid_colors, clusters.labels[i]) - 1


\* the response is a request verify_pattern takes: the pattern passes the
\* validation, and the colours are N rows of N triples that the colour scan
\* accepts
VerifyAccepts(pattern, extracted_colors) ==
    /\ ValidationError(pattern) = None
    /\ ValidPattern(pattern)
    /\ WellFormedColors([pattern |-> pattern,
                         extracted_colors |-> Some(extracted_colors)])
    /\ ColorScan(pattern, extracted_colors).error = None

\* C30: every successful analyze-image response meets the preconditions of
\* verify_pattern (N*N ink IDs with N in 3..8, 2 to 5 distinct IDs, N rows of
\* N RGB triples), so verifying it never ends in a validation error.
C30_SuccessIsVerifiable ==
    \A slot \in AnalyzeSlots :
        AnalyzeSucceeded(slot)
        => VerifyAccepts(Val(Val(ac[slot].response).pattern),
                         Val(Val(ac[slot].response).extracted_colors))

\* two calls have succeeded: one on the point path with two ink IDs, the
\* least verify_pattern takes, and one on the cell path with an 8x8 grid
C30_Witness ==
    \E a, b \in AnalyzeSlots :
        /\ AnalyzeSucceeded(a) /\ AnalyzeSucceeded(b)
        /\ ac[a].grid.sampling = "points"
        /\ DistinctCount(Val(Val(ac[a].response).pattern)) = 2
        /\ ac[b].grid.sampling = "cells"
        /\ Len(Val(Val(ac[b].response).pattern)) = 64


\* the call answered found = true from the exact lookup (Mode A) and its
\* audit row is written
ModeAFound ==
    /\ Responded
    /\ vc.best_match = None
    /\ Val(vc.response).found
    /\ Len(verification_logs) > vc.log0

\* the record of the registry with the id
RecordOf(id) == CHOOSE row \in Range(patterns) : row.id = id

\* the first match of the response is the most recently issued of the
\* records reported
FirstMatchIsMostRecent ==
    LET matches == Val(vc.response).matches
    IN  \A i \in DOMAIN matches :
            RecordOf(matches[1].id).timestamp >= RecordOf(matches[i].id).timestamp

\* C27: when several stored records equal the scanned pattern, Mode A
\* reports the most recently issued one, first in matches and as the matched
\* ID of the audit record, and the audit record's found flag and confidence
\* are those of the response.
C27_MostRecentReported ==
    ModeAFound
    => LET row == verification_logs[Len(verification_logs)]
           response == Val(vc.response)
       IN  /\ FirstMatchIsMostRecent
           /\ row.matched_pattern_id = Some(response.matches[1].id)
           /\ row.found = response.found
           /\ row.confidence = Some(response.matches[1].confidence)

\* what the call does: the response leads with the most recent record and
\* the audit row carries the response's flag and confidence, but names the
\* last record of matches, the oldest reported
AuditNamesLastMatch ==
    ModeAFound
    => LET row == verification_logs[Len(verification_logs)]
           response == Val(vc.response)
       IN  /\ FirstMatchIsMostRecent
           /\ row.matched_pattern_id
                  = Some(response.matches[Len(response.matches)].id)
           /\ row.found = response.found
           /\ row.confidence = Some(response.matches[1].confidence)


RECURSIVE StoreAll(_, _)
\* the registry after n more store-pattern calls for the tag P1 printed in
\* the inks PalX
StoreAll(table, n) ==
    IF n = 0 THEN table
    ELSE StoreAll(Append(table, CreatePattern(table, P1, 3, Some(PalX))), n - 1)

\* a registry holding a full page of records of one pattern
FullPage == StoreAll(<<>>, Limit)

\* the service starts on an empty registry or on a full page
InitRoundTrip ==
    /\ patterns \in {<<>>, FullPage}
    /\ verification_logs = <<>>
    /\ vc = Idle
    /\ pyRandom = 0
    /\ npRandom = 0
    /\ cvRng = 0
    /\ ac = [slot \in AnalyzeSlots |-> AnalyzeIdle]
    /\ mc = NoCall

SpecRoundTrip == InitRoundTrip /\ [][NextVerify]_vars

\* the call answered a valid pattern submitted without colours
AnsweredWithoutColors ==
    /\ Responded
    /\ ~HasColors(Val(vc.request))
    /\ ValidPattern(Val(vc.request).pattern)

\* the record was stored before the call began and its flattened pattern is
\* the one submitted
StoredBefore(i) ==
    /\ i \in 1..vc.reg0
    /\ patterns[i].grid_size \in 3..8
    /\ EvalList(patterns[i].pattern) = Val(vc.request).pattern

\* the response lists the record
AmongMatches(i) ==
    \E k \in DOMAIN Val(vc.response).matches :
        Val(vc.response).matches[k].id = patterns[i].id

\* the number of records of the same pattern stored after record i
StoredSince(i) ==
    Cardinality({j \in DOMAIN patterns :
                    j > i /\ patterns[j].pattern = patterns[i].pattern})

\* C28 as stated: verifying the flattened pattern of any stored record
\* answers found = true with that record among the matches.
C28_RoundTripEveryRecord ==
    AnsweredWithoutColors
    => \A i \in DOMAIN patterns :
           StoredBefore(i) => Val(vc.response).found /\ AmongMatches(i)

\* C28: verifying the flattened pattern of a stored record answers found =
\* true, with that record among the matches when fewer than Limit records of
\* the same pattern were stored after it.
C28_RoundTrip ==
    AnsweredWithoutColors
    => \A i \in DOMAIN patterns :
           StoredBefore(i)
           => /\ Val(vc.response).found
              /\ StoredSince(i) < Limit => AmongMatches(i)

\* eleven records of one pattern are stored and the call lists the ten most
\* recent: the second is among the matches, the first is not
C28_Witness ==
    /\ AnsweredWithoutColors
    /\ Len(patterns) = Limit + 1
    /\ vc.reg0 = Limit + 1
    /\ StoredBefore(1) /\ StoredBefore(2)
    /\ Val(vc.response).found
    /\ AmongMatches(2)
    /\ ~AmongMatches(1)


\* the call was given well-dimensioned colours for a valid pattern that the
\* lookup without colours finds in the registry as the call met it, and it
\* has ended without a failure of the audit write
EndedWithColors ==
    /\ vc.pc = "done"
    /\ ~vc.log_failed
    /\ ValidPattern(Val(vc.request).pattern)
    /\ HasColors(Val(vc.request))
    /\ WellFormedColors(Val(vc.request))
    /\ LookupResponse(Val(vc.request).pattern, vc.reg0).found

\* C29: supplying colours never loses a match: when verify_pattern without
\* extracted_colors answers found = true for a valid pattern, so does
\* verify_pattern with that pattern and any well-dimensioned colours.
C29_ColorsKeepTheMatch ==
    EndedWithColors => Responded /\ Val(vc.response).found

\* a call with well-dimensioned colours whose remapping matched no record
\* has fallen back to the exact lookup and answered found = true
C29_Witness ==
    /\ EndedWithColors
    /\ vc.best_match = None
    /\ vc.reads = 2
    /\ Responded
    /\ Val(vc.response).found

====
